---- MODULE Spec2Model ----
(***************************************************************************)
(* Receipt aggregation of scripts/agents/receipt_analysis_workflow.py:     *)
(* the accumulator _accumulated_results and the executor aggregate_results *)
(* (filter, scoring, stable ranking, base selection, gap filling, item     *)
(* de-duplication, output defaults, persisted artifacts), the result that  *)
(* mistral_processor builds from an OCR response, and the concurrent       *)
(* invocations of aggregate_results for the three results of one document  *)
(* (scripts/agents/receipt_analysis_all_agents.py).                        *)
(*                                                                         *)
(* Encodings.  An Optional[...] value is None (<<>>) or Some(v) (<<v>>).   *)
(* Amounts are integers in cents.  A confidence is an integer in           *)
(* hundredths.  An item description is a sequence of characters, so that   *)
(* lower() and strip() are computed and not assumed.  Completeness is kept *)
(* times 120 and a score times 6000, which makes the arithmetic of lines   *)
(* 706-752 exact on integers (field_counts divides 60, item scores are     *)
(* multiples of 0.5, priorities are multiples of 0.01).                    *)
(***************************************************************************)
EXTENDS Integers, Sequences, FiniteSets, TLC

\* Bound on the number of results accumulated over all documents.
MaxResults == 3

None == <<>>
Some(v) == <<v>>

\* Python truthiness of an Optional[str]: None and "" are falsy.
Truthy(x) == x # None /\ x[1] # ""

\* Python truthiness of an item description (a character sequence).
TruthyDesc(x) == x # None /\ x[1] # <<>>

\* Document ids (blob names), as character sequences.
Blobs == { <<"r", "/", "1">>, <<"r", "_", "1">> }

\* str.lower() on one character of the alphabet used by the descriptions.
LowerChar(c) ==
  CASE c = "C" -> "c"
    [] c = "T" -> "t"
    [] c = "L" -> "l"
    [] OTHER -> c

\* str.lower()
Lower(s) == [i \in 1..Len(s) |-> LowerChar(s[i])]

IsSpace(c) == c \in {" ", "\t", "\n"}

\* str.strip(): drops leading and trailing whitespace.
RECURSIVE LStrip(_)
LStrip(s) ==
  IF s = <<>> THEN <<>>
  ELSE IF IsSpace(Head(s)) THEN LStrip(Tail(s)) ELSE s

RECURSIVE RStrip(_)
RStrip(s) ==
  IF s = <<>> THEN <<>>
  ELSE IF IsSpace(s[Len(s)]) THEN RStrip(SubSeq(s, 1, Len(s) - 1)) ELSE s

Strip(s) == RStrip(LStrip(s))

\* Variant of DescKey that compares descriptions case-sensitively.
DescKeyNoLower(item) == Strip(item.description[1])

\* desc_key = item["description"].lower().strip()
DescKey(item) == Strip(Lower(item.description[1]))

\* source_priorities.get(source, 0)
SourcePriority(source) ==
  CASE source = "document_intelligence" -> 3
    [] source = "mistral" -> 2
    [] source = "direct_extraction" -> 1
    [] OTHER -> 0

\* Variant of IsValid that looks for another key.
IsValidWrongKey(r) == "errors" \notin r.raw_response

\* Line 687: a result is valid when its raw_response has no "error" key.
IsValid(r) == "error" \notin r.raw_response

\* Variant of ValidResults that filters nothing.
ValidResultsUnfiltered(results) == results

\* valid_results of line 687.
ValidResults(results) == SelectSeq(results, IsValid)

\* Variant of Min without the cap.
MinUncapped(a, b) == a

\* min(a, b) of line 729.
Min(a, b) == IF a <= b THEN a ELSE b

\* Twice the weighted sum completeness_score of lines 710-736.
WeightSum2(r) ==
    (IF Truthy(r.merchant_name) THEN 4 ELSE 0)
  + (IF Truthy(r.transaction_date) THEN 4 ELSE 0)
  + (IF r.total_amount # None THEN 6 ELSE 0)
  + (IF Truthy(r.currency) THEN 2 ELSE 0)
  + (IF r.items # <<>> THEN Min(Len(r.items), 10) ELSE 0)
  + (IF Truthy(r.transaction_time) THEN 2 ELSE 0)

\* field_counts of lines 711-736.
FieldCounts(r) ==
    (IF Truthy(r.merchant_name) THEN 1 ELSE 0)
  + (IF Truthy(r.transaction_date) THEN 1 ELSE 0)
  + (IF r.total_amount # None THEN 1 ELSE 0)
  + (IF Truthy(r.currency) THEN 1 ELSE 0)
  + (IF r.items # <<>> THEN 1 ELSE 0)
  + (IF Truthy(r.transaction_time) THEN 1 ELSE 0)

\* Variant of NormalizedCompleteness that does not divide by field_counts.
NormalizedCompletenessSum(r) == 60 * WeightSum2(r)

\* normalized_completeness, times 120.
NormalizedCompleteness(r) ==
  IF FieldCounts(r) > 0 THEN (60 \div FieldCounts(r)) * WeightSum2(r) ELSE 0

\* Variant of Confidence that takes 0.5 for a falsy confidence_score.
ConfidenceOrDefault(r) ==
  IF r.confidence_score # None /\ r.confidence_score[1] # 0
  THEN r.confidence_score[1] ELSE 50

\* confidence, in hundredths: 0.5 when confidence_score is None.
Confidence(r) ==
  IF r.confidence_score # None THEN r.confidence_score[1] ELSE 50

\* final_score, times 6000:
\* 0.7 * completeness + 0.3 * confidence + 0.01 * priority.
FinalScore(r) ==
  35 * NormalizedCompleteness(r) + 18 * Confidence(r)
    + 60 * SourcePriority(r.source)

\* One entry of scored_results.
Scored(r) ==
  [result |-> r, score |-> FinalScore(r),
   completeness |-> NormalizedCompleteness(r), confidence |-> Confidence(r)]

\* scored_results before the sort, in arrival order.
ScoredResults(valid) == [i \in 1..Len(valid) |-> Scored(valid[i])]

\* Variant of InsertByScore that puts x in front of the entries of equal
\* score.
RECURSIVE InsertByScoreUnstable(_, _)
InsertByScoreUnstable(x, sorted) ==
  IF sorted = <<>> THEN <<x>>
  ELSE IF Head(sorted).score > x.score
       THEN <<Head(sorted)>> \o InsertByScoreUnstable(x, Tail(sorted))
       ELSE <<x>> \o sorted

\* Insertion of x into a list sorted by descending score, behind every
\* entry whose score is not smaller: equal scores keep their arrival order.
RECURSIVE InsertByScore(_, _)
InsertByScore(x, sorted) ==
  IF sorted = <<>> THEN <<x>>
  ELSE IF Head(sorted).score >= x.score
       THEN <<Head(sorted)>> \o InsertByScore(x, Tail(sorted))
       ELSE <<x>> \o sorted

\* Variant of SortByScore that leaves the list in arrival order.
SortByScoreOmitted(scored) == scored

\* scored_results.sort(key=score, reverse=True): stable, descending.
RECURSIVE SortByScore(_)
SortByScore(scored) ==
  IF scored = <<>> THEN <<>>
  ELSE InsertByScore(scored[Len(scored)],
                     SortByScore(SubSeq(scored, 1, Len(scored) - 1)))

\* Variant of BaseFields that attributes the total by its truthiness.
BaseFieldsFalsyTotal(best) ==
  [merchant_name |-> best.merchant_name,
   transaction_date |-> best.transaction_date,
   transaction_time |-> best.transaction_time,
   total_amount |-> best.total_amount,
   currency |-> best.currency,
   field_sources |->
     [merchant_name |->
        IF Truthy(best.merchant_name) THEN Some(best.source) ELSE None,
      transaction_date |->
        IF Truthy(best.transaction_date) THEN Some(best.source) ELSE None,
      transaction_time |->
        IF Truthy(best.transaction_time) THEN Some(best.source) ELSE None,
      total_amount |->
        IF best.total_amount \notin {None, Some(0)}
        THEN Some(best.source) ELSE None,
      currency |->
        IF Truthy(best.currency) THEN Some(best.source) ELSE None]]

\* Lines 776-789: the scalar fields and field_sources seeded from the base.
BaseFields(best) ==
  [merchant_name |-> best.merchant_name,
   transaction_date |-> best.transaction_date,
   transaction_time |-> best.transaction_time,
   total_amount |-> best.total_amount,
   currency |-> best.currency,
   field_sources |->
     [merchant_name |->
        IF Truthy(best.merchant_name) THEN Some(best.source) ELSE None,
      transaction_date |->
        IF Truthy(best.transaction_date) THEN Some(best.source) ELSE None,
      transaction_time |->
        IF Truthy(best.transaction_time) THEN Some(best.source) ELSE None,
      total_amount |->
        IF best.total_amount # None THEN Some(best.source) ELSE None,
      currency |->
        IF Truthy(best.currency) THEN Some(best.source) ELSE None]]

\* Variant of FillMissingFields that takes every field the result has,
\* whether or not the merged record already holds one.
FillFieldsOverwrite(m, r) ==
  LET src(fill, old) == IF fill THEN Some(r.source) ELSE old
  IN [merchant_name |->
        IF Truthy(r.merchant_name) THEN r.merchant_name
        ELSE m.merchant_name,
      transaction_date |->
        IF Truthy(r.transaction_date) THEN r.transaction_date
        ELSE m.transaction_date,
      transaction_time |->
        IF Truthy(r.transaction_time) THEN r.transaction_time
        ELSE m.transaction_time,
      total_amount |->
        IF r.total_amount # None THEN r.total_amount ELSE m.total_amount,
      currency |->
        IF Truthy(r.currency) THEN r.currency ELSE m.currency,
      field_sources |->
        [merchant_name |->
           src(Truthy(r.merchant_name), m.field_sources.merchant_name),
         transaction_date |->
           src(Truthy(r.transaction_date), m.field_sources.transaction_date),
         transaction_time |->
           src(Truthy(r.transaction_time), m.field_sources.transaction_time),
         total_amount |->
           src(r.total_amount # None, m.field_sources.total_amount),
         currency |-> src(Truthy(r.currency), m.field_sources.currency)]]

\* Lines 814-837: one lower-ranked result fills the fields still missing.
FillMissingFields(m, r) ==
  LET fillMerchant == ~Truthy(m.merchant_name) /\ Truthy(r.merchant_name)
      fillDate == ~Truthy(m.transaction_date) /\ Truthy(r.transaction_date)
      fillTime == ~Truthy(m.transaction_time) /\ Truthy(r.transaction_time)
      fillTotal == m.total_amount = None /\ r.total_amount # None
      fillCurrency == ~Truthy(m.currency) /\ Truthy(r.currency)
      src(fill, old) == IF fill THEN Some(r.source) ELSE old
  IN [merchant_name |->
        IF fillMerchant THEN r.merchant_name ELSE m.merchant_name,
      transaction_date |->
        IF fillDate THEN r.transaction_date ELSE m.transaction_date,
      transaction_time |->
        IF fillTime THEN r.transaction_time ELSE m.transaction_time,
      total_amount |->
        IF fillTotal THEN r.total_amount ELSE m.total_amount,
      currency |->
        IF fillCurrency THEN r.currency ELSE m.currency,
      field_sources |->
        [merchant_name |-> src(fillMerchant, m.field_sources.merchant_name),
         transaction_date |->
           src(fillDate, m.field_sources.transaction_date),
         transaction_time |->
           src(fillTime, m.field_sources.transaction_time),
         total_amount |-> src(fillTotal, m.field_sources.total_amount),
         currency |-> src(fillCurrency, m.field_sources.currency)]]

\* Variant of FillFromOthers that walks the other results from the lowest
\* ranked to the highest.
RECURSIVE FillFromOthersReversed(_, _)
FillFromOthersReversed(m, others) ==
  IF others = <<>> THEN m
  ELSE FillMissingFields(FillFromOthersReversed(m, Tail(others)),
                         Head(others).result)

\* The loop of line 810 over scored_results[1:], fields part.
RECURSIVE FillFromOthers(_, _)
FillFromOthers(m, others) ==
  IF others = <<>> THEN m
  ELSE FillMissingFields(FillFromOthers(m, SubSeq(others, 1, Len(others) - 1)),
                         others[Len(others)].result)

\* Variant of AddItems that records a source for every item with a
\* description, taken or not.
RECURSIVE AddItemsSourceAlways(_, _, _)
AddItemsSourceAlways(st, items, source) ==
  IF items = <<>> THEN st
  ELSE LET item == Head(items)
           take == TruthyDesc(item.description)
                     /\ DescKey(item) \notin st.seen_item_descriptions
           next ==
             IF take
             THEN [all_items |-> Append(st.all_items, item),
                   seen_item_descriptions |->
                     st.seen_item_descriptions \cup {DescKey(item)},
                   item_sources |->
                     Append(st.item_sources,
                            [description |-> item.description,
                             source |-> source])]
             ELSE IF TruthyDesc(item.description)
             THEN [st EXCEPT !.item_sources =
                     Append(@, [description |-> item.description,
                                source |-> source])]
             ELSE st
       IN AddItemsSourceAlways(next, Tail(items), source)

\* Lines 798-807 and 841-850: the items of one result, in their order; an
\* item is taken when its description is truthy and its key is not yet seen.
RECURSIVE AddItems(_, _, _)
AddItems(st, items, source) ==
  IF items = <<>> THEN st
  ELSE LET item == Head(items)
           take == TruthyDesc(item.description)
                     /\ DescKey(item) \notin st.seen_item_descriptions
           next ==
             IF take
             THEN [all_items |-> Append(st.all_items, item),
                   seen_item_descriptions |->
                     st.seen_item_descriptions \cup {DescKey(item)},
                   item_sources |->
                     Append(st.item_sources,
                            [description |-> item.description,
                             source |-> source])]
             ELSE st
       IN AddItems(next, Tail(items), source)

\* Variant of MergeItems that takes the items of the base only.
MergeItemsBaseOnly(ranked) ==
  IF ranked = <<>>
  THEN [all_items |-> <<>>, seen_item_descriptions |-> {},
        item_sources |-> <<>>]
  ELSE AddItems([all_items |-> <<>>, seen_item_descriptions |-> {},
                 item_sources |-> <<>>],
                ranked[1].result.items, ranked[1].result.source)

\* Lines 792-807 and 839-851: the items of the ranked results, base first.
RECURSIVE MergeItems(_)
MergeItems(ranked) ==
  IF ranked = <<>>
  THEN [all_items |-> <<>>, seen_item_descriptions |-> {},
        item_sources |-> <<>>]
  ELSE LET last == ranked[Len(ranked)].result
       IN AddItems(MergeItems(SubSeq(ranked, 1, Len(ranked) - 1)),
                   last.items, last.source)

\* The dict comprehension of lines 867-869: one score per source; a later
\* entry of the ranked list replaces an earlier one of the same source.
SourceScores(ranked) ==
  [s \in {ranked[i].result.source : i \in 1..Len(ranked)} |->
     LET last == CHOOSE i \in 1..Len(ranked) :
                   /\ ranked[i].result.source = s
                   /\ \A j \in (i + 1)..Len(ranked) :
                        ranked[j].result.source # s
     IN ranked[last].score]

\* x or default, for an Optional[str].
StrOr(x, default) == IF Truthy(x) THEN x[1] ELSE default

\* total_amount or 0.0
AmountOr(x, default) == IF x # None /\ x[1] # 0 THEN x[1] ELSE default

\* Variant of SourcesUsed that lists the sources in ranked order.
SourcesUsedRanked(valid) ==
  LET ranked == SortByScore(ScoredResults(valid))
  IN [i \in 1..Len(ranked) |-> ranked[i].result.source]

\* sources_used of line 694: the sources of the valid results, in the order
\* of the accumulated list.
SourcesUsed(valid) == [i \in 1..Len(valid) |-> valid[i].source]

\* Variant of FinalData that records the field sources of the base only.
FinalDataBaseSources(valid) ==
  LET ranked == SortByScore(ScoredResults(valid))
      best == ranked[1].result
      m == FillFromOthers(BaseFields(best), Tail(ranked))
      it == MergeItems(ranked)
  IN [merchant_name |-> StrOr(m.merchant_name, "Unknown"),
      transaction_date |-> StrOr(m.transaction_date, "Unknown"),
      transaction_time |-> m.transaction_time,
      total_amount |-> AmountOr(m.total_amount, 0),
      currency |-> StrOr(m.currency, "USD"),
      items |-> it.all_items,
      metadata |->
        [confidence_score |-> ranked[1].confidence,
         completeness_score |-> ranked[1].completeness,
         aggregation_score |-> ranked[1].score,
         best_source |-> best.source,
         source_scores |-> SourceScores(ranked),
         field_sources |-> BaseFields(best).field_sources,
         item_sources |-> it.item_sources],
      sources_used |-> SourcesUsed(valid),
      blob_name |-> valid[1].blob_name]

\* Lines 693-695 and 764-875: FinalReceiptData built from a non-empty list
\* of valid results, the timestamp aside.
FinalData(valid) ==
  LET ranked == SortByScore(ScoredResults(valid))
      best == ranked[1].result
      m == FillFromOthers(BaseFields(best), Tail(ranked))
      it == MergeItems(ranked)
  IN [merchant_name |-> StrOr(m.merchant_name, "Unknown"),
      transaction_date |-> StrOr(m.transaction_date, "Unknown"),
      transaction_time |-> m.transaction_time,
      total_amount |-> AmountOr(m.total_amount, 0),
      currency |-> StrOr(m.currency, "USD"),
      items |-> it.all_items,
      metadata |->
        [confidence_score |-> ranked[1].confidence,
         completeness_score |-> ranked[1].completeness,
         aggregation_score |-> ranked[1].score,
         best_source |-> best.source,
         source_scores |-> SourceScores(ranked),
         field_sources |-> m.field_sources,
         item_sources |-> it.item_sources],
      sources_used |-> SourcesUsed(valid),
      blob_name |-> valid[1].blob_name]

\* Lines 893-923: the aggregation context, the timestamp aside.
AggregationContext(valid) ==
  LET ranked == SortByScore(ScoredResults(valid))
      final == FinalData(valid)
  IN [blob_name |-> valid[1].blob_name,
      num_sources |-> Len(valid),
      sources_evaluated |-> final.sources_used,
      scoring_details |->
        [i \in 1..Len(ranked) |->
           [source |-> ranked[i].result.source,
            final_score |-> ranked[i].score,
            completeness_score |-> ranked[i].completeness,
            confidence_score |-> ranked[i].confidence,
            extracted_fields |->
              [merchant_name |-> ranked[i].result.merchant_name,
               transaction_date |-> ranked[i].result.transaction_date,
               transaction_time |-> ranked[i].result.transaction_time,
               total_amount |-> ranked[i].result.total_amount,
               currency |-> ranked[i].result.currency,
               num_items |-> Len(ranked[i].result.items)]]],
      selection_logic |->
        [best_source |-> ranked[1].result.source,
         best_score |-> ranked[1].score,
         field_attribution |-> final.metadata.field_sources,
         item_attribution |-> final.metadata.item_sources,
         merge_strategy |-> "highest_scoring_base_with_gap_filling"],
      final_output |-> final]

\* safe_blob_name of lines 675 and 890.
SafeBlobName(b) ==
  [i \in 1..Len(b) |-> IF b[i] \in {"/", "\\", "."} THEN "_" ELSE b[i]]

\* ReceiptExtractionResult
Result(blob, src, merchant, date, time, total, cur, items, conf, raw) ==
  [source |-> src, merchant_name |-> merchant, transaction_date |-> date,
   transaction_time |-> time, total_amount |-> total, currency |-> cur,
   items |-> items, raw_response |-> raw, confidence_score |-> conf,
   blob_name |-> blob]

\* Line items, as the processors build them (description, price).
Item(description, price) == [description |-> description, price |-> price]

Coffee == Item(Some(<<"C", "o", "f", "f", "e", "e">>), 450)

CoffeeSpaced ==
  Item(Some(<<" ", " ", "c", "o", "f", "f", "e", "e", " ", " ">>), 475)

Tea == Item(Some(<<"T", "e", "a">>), 300)

TeaUpper == Item(Some(<<"T", "E", "A", "\n">>), 350)

Latte == Item(Some(<<"L", "a", "t", "t", "e">>), 450)

Ghost == Item(Some(<<"g", "h", "o", "s", "t">>), 1)

BlankDesc == Item(Some(<<" ", " ">>), 100)

EmptyDesc == Item(Some(<<>>), 200)

NoDesc == Item(None, 250)

\* The eleven items of a long receipt.
LongReceipt == <<CoffeeSpaced, Tea, Coffee>> \o [i \in 1..8 |-> Tea]

\* The text of an OCR response, given by what the patterns of lines 358-446
\* find in it: the first line, the first date, time and total matched, the
\* currency of the first currency pattern matched, and the item matches.
OcrText(first_line, date, time, total, currency, items) ==
  [first_line |-> first_line, date |-> date, time |-> time, total |-> total,
   currency |-> currency, items |-> items]

\* Responses of the OCR service (mistral_result): a dict given by its keys
\* and, under "content", the text.
MistralResponses ==
  { \* a text with a shop name and an item line, no total, no currency
    [content |-> OcrText("Corner Shop", None, None, None, None, <<Tea>>)],
    \* a response without a "content" key
    [pages |-> "pages"] }

\* Lines 431-432 of mistral_processor: the currency found in the text, or
\* 'USD' when none was found.
MistralCurrency(found) == IF Truthy(found) THEN found ELSE Some("USD")

\* Lines 346-470 of mistral_processor: the result built from a response of
\* the OCR service.
MistralResult(b, mistral_result) ==
  IF "content" \in DOMAIN mistral_result
  THEN LET content == mistral_result.content
           total == content.total
           keep(item) == total # None /\ total[1] # 0 /\ item.price < total[1]
       IN Result(b, "mistral", Some(content.first_line), content.date,
                 content.time, total, MistralCurrency(content.currency),
                 SelectSeq(content.items, keep), Some(85),
                 DOMAIN mistral_result)
  ELSE Result(b, "mistral", None, None, None, None, None, <<>>, Some(85),
              DOMAIN mistral_result)

\* Extraction results that the processors can deliver for any document b.
\* raw_response is given by its set of keys.
CommonExtractions(b) ==
  { \* structured extraction, merchant only
    Result(b, "document_intelligence", Some("Cafe X"), None, None, None,
           None, <<>>, Some(90), {"documents"}),
    \* vision, no merchant
    Result(b, "direct_extraction", None, None, None, Some(450), Some("USD"),
           <<Latte>>, Some(88), {"model", "response", "extraction"}),
    \* error-tagged, as the processors build it
    Result(b, "mistral", None, None, None, None, None, <<>>, None,
           {"error"}) }

\* Further extraction results, delivered for the first document only.
MoreExtractions(b) ==
  { \* same score as the merchant-only result above, another merchant
    Result(b, "document_intelligence", Some("Bistro Y"), None, None, None,
           None, <<>>, Some(90), {"documents"}),
    \* structured extraction, empty merchant and time, total 0 without a
    \* currency code, items without a usable description, a confidence of 0
    Result(b, "document_intelligence", Some(""), Some("2024-01-01"),
           Some(""), Some(0), None, <<Coffee, BlankDesc, NoDesc>>, Some(0),
           {"documents"}),
    \* vision, every field, eleven items, no reported confidence
    Result(b, "direct_extraction", Some("Bistro Y"), Some("2024-01-02"),
           Some("12:30"), Some(1200), Some("EUR"), LongReceipt, None,
           {"model", "response", "extraction"}),
    \* structured extraction, every field, low confidence
    Result(b, "document_intelligence", Some("Bistro Y"), Some("2024-02-02"),
           Some("09:00"), Some(700), Some("GBP"), <<TeaUpper, EmptyDesc>>,
           Some(10), {"documents"}),
    \* error-tagged, with fields
    Result(b, "document_intelligence", Some("Ghost"), None, None,
           Some(99900), None, <<Ghost>>, Some(100), {"error"}) }
  \cup { MistralResult(b, mistral_result) :
           mistral_result \in MistralResponses }

\* The extraction results delivered for document b.
Extractions(b) ==
  IF b = <<"r", "/", "1">>
  THEN CommonExtractions(b) \cup MoreExtractions(b)
  ELSE CommonExtractions(b)

VARIABLES accumulated_results, output, inbox, suspended, log,
          run, workflow, processed,
          roundtrip, extraction, load_test, poll

vars ==
  <<accumulated_results, output, inbox, suspended, log,
    run, workflow, processed, roundtrip, extraction, load_test, poll>>

\* The state of the workflows, and the state of the computations that are
\* followed on their own.
workflow_vars ==
  <<accumulated_results, output, inbox, suspended, log,
    run, workflow, processed>>

other_vars == <<roundtrip, extraction, load_test, poll>>

\* No main has been started in the process.
NoRun ==
  [mode |-> "none", configured |-> {}, i |-> 0,
   results_summary |->
     [total |-> 0, successful |-> 0, failed |-> 0, results |-> <<>>]]

\* No workflow has been run in the process.
NoWorkflow ==
  [phase |-> "none", blob_name |-> <<>>, image |-> "none",
   storage |-> "none", queue |-> <<>>, outputs |-> <<>>,
   assessment |-> None, invoked |-> <<>>, sent |-> <<>>, carried |-> 0]

\* _accumulated_results = {} (a missing key is the empty list); nothing has
\* been emitted, no message is in flight, no main is running.
Init ==
  /\ accumulated_results = [b \in Blobs |-> <<>>]
  /\ output = None
  /\ inbox = {}
  /\ suspended = {}
  /\ log = <<>>
  /\ run = NoRun
  /\ workflow = NoWorkflow
  /\ processed = 0
  /\ roundtrip = None
  /\ extraction = None
  /\ load_test = None
  /\ poll = None

\* Number of results accumulated over all documents.
RECURSIVE TotalLen(_)
TotalLen(S) ==
  IF S = {} THEN 0
  ELSE LET b == CHOOSE x \in S : TRUE
       IN Len(accumulated_results[b]) + TotalLen(S \ {b})

\* Variant of Emit that holds the merged record back until all three sources
\* have reported a valid result.
EmitWhenComplete(result, results) ==
  LET valid == ValidResults(results)
      safe == SafeBlobName(result.blob_name)
      complete ==
        Cardinality({valid[i].source : i \in 1..Len(valid)}) = 3
  IN [blob_name |-> result.blob_name,
      intermediary_file |-> <<safe, result.source>>,
      intermediary |-> result,
      yielded |->
        IF valid = <<>> THEN "No valid results to aggregate"
        ELSE "Receipt processing complete",
      output_file |-> IF complete THEN Some(safe) ELSE None,
      final_data |-> IF complete THEN Some(FinalData(valid)) ELSE None,
      aggregation_context |->
        IF complete THEN Some(AggregationContext(valid)) ELSE None]

\* What one invocation of aggregate_results emits for the list `results` of
\* the document of `result`: the intermediary file, the yielded text and,
\* with at least one valid result, the receipt file and the aggregation
\* context file (timestamps and the markdown rendering of the same values
\* aside).
Emit(result, results) ==
  LET valid == ValidResults(results)
      safe == SafeBlobName(result.blob_name)
  IN [blob_name |-> result.blob_name,
      intermediary_file |-> <<safe, result.source>>,
      intermediary |-> result,
      yielded |->
        IF valid = <<>> THEN "No valid results to aggregate"
        ELSE "Receipt processing complete",
      output_file |-> IF valid = <<>> THEN None ELSE Some(safe),
      final_data |-> IF valid = <<>> THEN None ELSE Some(FinalData(valid)),
      aggregation_context |->
        IF valid = <<>> THEN None ELSE Some(AggregationContext(valid))]

\* Variant of Accumulate that starts the list anew with every result.
AccumulateReplace(results, result) == <<result>>

\* Lines 664-667: the result is appended to the list of its document.
Accumulate(results, result) == Append(results, result)

\* Variant of AggregateResults with one list shared by all documents.
AggregateResultsShared(result) ==
  /\ accumulated_results' =
       [b \in Blobs |-> Accumulate(accumulated_results[b], result)]
  /\ output' = Some(Emit(result, accumulated_results'[result.blob_name]))

\* aggregate_results(result, ctx), lines 663-975: the body of the handler
\* up to its only await, the yield_output of line 690 or 976.  No await and
\* no other suspension point stands between the append of line 667, the
\* read of line 684, the merge and the file writes (open and json.dump are
\* synchronous), so the event loop runs the body as one step.
AggregateResults(result) ==
  /\ accumulated_results' =
       [accumulated_results EXCEPT
          ![result.blob_name] = Accumulate(@, result)]
  /\ output' = Some(Emit(result, accumulated_results'[result.blob_name]))

\* main: the accumulated results of a document are cleared before the
\* document is processed.
ClearAccumulated(blob_name) ==
  /\ accumulated_results[blob_name] # <<>>
  /\ accumulated_results' = [accumulated_results EXCEPT ![blob_name] = <<>>]
  /\ UNCHANGED <<output, inbox, suspended, log, run, workflow, processed>>
  /\ UNCHANGED other_vars

\* A result reaches aggregate_results and the handler runs to its end; at
\* most MaxResults results are delivered.
Deliver(result) ==
  /\ TotalLen(Blobs) < MaxResults
  /\ AggregateResults(result)
  /\ UNCHANGED <<inbox, suspended, log, run, workflow, processed>>
  /\ UNCHANGED other_vars

Next ==
  \/ \E b \in Blobs : \E result \in Extractions(b) : Deliver(result)
  \/ \E b \in Blobs : ClearAccumulated(b)

Spec == Init /\ [][Next]_vars

(***************************************************************************)
(* Concurrent invocations for one document.  The all-agents workflow sends *)
(* a document to the three processors, which send their results to         *)
(* aggregate_results; the invocations of the handler for a result of each  *)
(* processor are tasks of one event loop, which switches between them at   *)
(* an await only.                                                          *)
(***************************************************************************)

\* The processors wired to aggregate_results.
Processors == {"document_intelligence", "mistral", "direct_extraction"}

\* The results that the processor `source` can deliver for document b.
From(b, source) == {r \in Extractions(b) : r.source = source}

\* The triples of results, one of each processor, for document b.
FanOut(b) ==
  { {di, mi, de} : di \in From(b, "document_intelligence"),
                   mi \in From(b, "mistral"),
                   de \in From(b, "direct_extraction") }

\* A document was dispatched: a result of each processor is on its way to
\* aggregate_results.
ConcurrentInit ==
  /\ accumulated_results = [b \in Blobs |-> <<>>]
  /\ output = None
  /\ \E b \in Blobs : inbox \in FanOut(b)
  /\ suspended = {}
  /\ log = <<>>
  /\ run = NoRun
  /\ workflow = NoWorkflow
  /\ processed = 0
  /\ roundtrip = None
  /\ extraction = None
  /\ load_test = None
  /\ poll = None

\* An invocation of aggregate_results starts for a result of the inbox and
\* runs up to its await; the log records the list it read at line 684 and
\* the merged record it wrote.
Handle(result) ==
  /\ result \in inbox
  /\ AggregateResults(result)
  /\ inbox' = inbox \ {result}
  /\ suspended' = suspended \cup {result}
  /\ log' = Append(log, [result |-> result,
                         results |-> accumulated_results'[result.blob_name],
                         final_data |-> output'[1].final_data])
  /\ UNCHANGED <<run, workflow, processed>>
  /\ UNCHANGED other_vars

\* The await of line 690 or 976 completes and the invocation returns.
Return(result) ==
  /\ result \in suspended
  /\ suspended' = suspended \ {result}
  /\ UNCHANGED <<accumulated_results, output, inbox, log>>
  /\ UNCHANGED <<run, workflow, processed>>
  /\ UNCHANGED other_vars

ConcurrentNext ==
  \/ \E result \in inbox : Handle(result)
  \/ \E result \in suspended : Return(result)

ConcurrentSpec == ConcurrentInit /\ [][ConcurrentNext]_vars

(***************************************************************************)
(* The two mains and their workflows.  A main lists the receipts of the    *)
(* container and runs its workflow once per receipt, one receipt after the *)
(* other; a workflow run delivers messages along the edges of the graph    *)
(* the main built, one executor invocation at a time and in the order the  *)
(* messages were sent, until no message is left.  The accumulated results  *)
(* live as long as the process, which may run a main more than once.       *)
(***************************************************************************)

\* Number of receipts the mains of one process start processing.
MaxProcessed == 3

\* get_container_blobs(): the blobs of the container, in listing order.
Receipts == << <<"r", "/", "1">>, <<"r", "_", "1">> >>

\* The main that the process runs: receipt_analysis_all_agents.main or
\* receipt_analysis_workflow.main.
Modes == {"all_agents", "quality_routed"}

\* The processors whose endpoint and key are in the environment; a processor
\* without them sends an error-tagged result.
Configurations == {Processors, {}, {"document_intelligence"}}

\* get_blob_base64(blob_name): the base64 text of the blob ("ok"), the empty
\* string for an empty blob ("empty"), or the exception of the storage
\* client ("raises"); the function catches nothing.
Retrievals == {"ok", "empty", "raises"}

\* The executor of each source.
Executor(source) ==
  CASE source = "document_intelligence" -> "document_intelligence_processor"
    [] source = "mistral" -> "mistral_processor"
    [] source = "direct_extraction" -> "direct_extraction_processor"

ProcessorIds == {Executor(source) : source \in Processors}

\* The message type that the handler of each executor takes.
Accepts(executor) ==
  CASE executor \in ProcessorIds -> "AgentExecutorRequest"
    [] executor \in {"dispatch_to_all_agents", "quality_assessor"} ->
         "AgentExecutorRequest"
    [] executor = "aggregate_results" -> "ReceiptExtractionResult"
    [] OTHER -> "AgentExecutorResponse"

\* add_edge(source, target, condition=get_quality_condition(expected)).
Edge(source, target, condition) ==
  [source |-> source, target |-> target, condition |-> condition]

\* The graph of receipt_analysis_all_agents.main.
AllAgentsEdges ==
  << Edge("dispatch_to_all_agents", "document_intelligence_processor", None),
     Edge("dispatch_to_all_agents", "mistral_processor", None),
     Edge("dispatch_to_all_agents", "direct_extraction_processor", None),
     Edge("document_intelligence_processor", "aggregate_results", None),
     Edge("mistral_processor", "aggregate_results", None),
     Edge("direct_extraction_processor", "aggregate_results", None) >>

\* The graph of receipt_analysis_workflow.main.
QualityRoutedEdges ==
  << Edge("quality_assessor", "to_mistral_request", Some("clear")),
     Edge("to_mistral_request", "mistral_processor", None),
     Edge("quality_assessor", "to_document_intelligence_request",
          Some("blurry")),
     Edge("to_document_intelligence_request",
          "document_intelligence_processor", None),
     Edge("quality_assessor", "to_multi_agent_request", Some("uncertain")),
     Edge("to_multi_agent_request", "document_intelligence_processor", None),
     Edge("to_multi_agent_request", "mistral_processor", None),
     Edge("to_multi_agent_request", "direct_extraction_processor", None),
     Edge("mistral_processor", "aggregate_results", None),
     Edge("document_intelligence_processor", "aggregate_results", None),
     Edge("direct_extraction_processor", "aggregate_results", None) >>

Edges(mode) ==
  IF mode = "all_agents" THEN AllAgentsEdges ELSE QualityRoutedEdges

\* set_start_executor
StartExecutor(mode) ==
  IF mode = "all_agents" THEN "dispatch_to_all_agents" ELSE "quality_assessor"

\* A text is a sequence of pieces: the characters of a blob name, and the
\* fixed parts of the f-strings around it.
Contains(text, sep) == \E i \in 1..Len(text) : text[i] = sep

\* text.split(sep)
RECURSIVE Split(_, _)
Split(text, sep) ==
  IF ~Contains(text, sep) THEN <<text>>
  ELSE LET i == CHOOSE i \in 1..Len(text) :
                  text[i] = sep /\ \A k \in 1..(i - 1) : text[k] # sep
       IN <<SubSeq(text, 1, i - 1)>>
            \o Split(SubSeq(text, i + 1, Len(text)), sep)

Unknown == <<"u", "n", "k", "n", "o", "w", "n">>

\* f"Process receipt: {blob_name}"
ProcessReceiptText(blob_name) == <<"Process receipt: ">> \o blob_name

\* dispatch_to_all_agents: the blob name after "Process receipt: ",
\* stripped, or "unknown".
DispatchedBlobName(text) ==
  IF Contains(text, "Process receipt: ")
  THEN Strip(Split(text, "Process receipt: ")[2])
  ELSE Unknown

\* f"{head}: {blob_name}\n{label}: {image_data_b64[:100]}..."
RequestText(head, blob_name, label) ==
  <<head, ": ">> \o blob_name \o <<"\n", label, ": ", "...">>

\* The processors:
\* message_text.split(": ")[1].split("\n")[0] if ": " in message_text
\* else "unknown"
RequestedBlobName(text) ==
  IF Contains(text, ": ") THEN Split(Split(text, ": ")[2], "\n")[1]
  ELSE Unknown

\* The replies of the quality assessor to a request: JSON of an
\* ImageQualityAssessment (quality is a str) naming the blob of the request,
\* or a text that is no such JSON.
Assessments(text) ==
  { [json |-> TRUE, quality |-> quality,
     blob_name |-> RequestedBlobName(text)] :
      quality \in {"clear", "blurry", "uncertain", "good"} }
  \cup { [json |-> FALSE, quality |-> "", blob_name |-> <<>>] }

\* ImageQualityAssessment.model_validate_json(text): the assessment, or
\* None where the call raises.
ModelValidateJson(text) == IF text.json THEN Some(text) ELSE None

\* Variant of QualityCondition that holds for every assessment.
QualityConditionParsed(expected_quality, type, message) ==
  IF type # "AgentExecutorResponse" THEN TRUE
  ELSE ModelValidateJson(message) # None

\* get_quality_condition(expected_quality)(message)
QualityCondition(expected_quality, type, message) ==
  IF type # "AgentExecutorResponse" THEN TRUE
  ELSE LET assessment == ModelValidateJson(message)
       IN IF assessment = None THEN FALSE
          ELSE assessment[1].quality = expected_quality

\* Variant of ShouldRoute that lets a reply through that is no assessment.
ShouldRouteUnparsed(edge, type, message) ==
  \/ edge.condition = None
  \/ ModelValidateJson(message) = None
  \/ QualityCondition(edge.condition[1], type, message)

\* The edge lets the message through.
ShouldRoute(edge, type, message) ==
  \/ edge.condition = None
  \/ QualityCondition(edge.condition[1], type, message)

\* ctx.send_message(message), no target id given: the message is delivered
\* along every edge that leaves the sender, to the targets whose handler
\* takes its type and whose edge condition holds, in the order of the edges.
RECURSIVE Deliveries(_, _, _, _)
Deliveries(edges, sender, type, message) ==
  IF edges = <<>> THEN <<>>
  ELSE LET edge == Head(edges)
           rest == Deliveries(Tail(edges), sender, type, message)
       IN IF /\ edge.source = sender
             /\ Accepts(edge.target) = type
             /\ ShouldRoute(edge, type, message)
          THEN <<[target |-> edge.target, type |-> type,
                  message |-> message]>> \o rest
          ELSE rest

\* n times ctx.send_message(message).
RECURSIVE SendMessages(_, _, _, _, _)
SendMessages(n, edges, sender, type, message) ==
  IF n = 0 THEN <<>>
  ELSE Deliveries(edges, sender, type, message)
         \o SendMessages(n - 1, edges, sender, type, message)

\* The result a processor builds from the answer of its service.
Extracted(blob_name, source) ==
  IF source = "mistral"
  THEN MistralResult(blob_name,
         CHOOSE mistral_result \in MistralResponses :
           "content" \in DOMAIN mistral_result)
  ELSE CHOOSE r \in CommonExtractions(blob_name) : r.source = source

\* The result a processor builds when it has no credentials or its call to
\* the service fails: raw_response={"error": ...} and no field.
ErrorResult(blob_name, source) ==
  Result(blob_name, source, None, None, None, None, None, <<>>, None,
         {"error"})

\* Variant of Recorded that counts every receipt as successful.
RecordedSuccessful(summary, blob_name, status) ==
  [summary EXCEPT
     !.successful = @ + 1,
     !.results = Append(@, [blob_name |-> blob_name, status |-> status])]

\* results_summary after the entry of a receipt was appended and its
\* counter incremented.
Recorded(summary, blob_name, status) ==
  [summary EXCEPT
     !.successful = IF status = "success" THEN @ + 1 ELSE @,
     !.failed = IF status = "success" THEN @ ELSE @ + 1,
     !.results = Append(@, [blob_name |-> blob_name, status |-> status])]

\* The loop of main goes on to the next receipt.
NextReceipt(status) ==
  run' = [run EXCEPT
            !.i = @ + 1,
            !.results_summary =
              Recorded(@, Receipts[run.i], status)]

\* An exception leaves workflow.run: the except branch of the loop records
\* the receipt as "error".
Raise(executor) ==
  /\ workflow' = [workflow EXCEPT
                    !.phase = "raised",
                    !.queue = <<>>,
                    !.invoked = Append(@, executor)]
  /\ NextReceipt("error")
  /\ UNCHANGED <<accumulated_results, output>>

\* The handler of the executor returns after sending the messages.
Sent(executor, messages) ==
  workflow' = [workflow EXCEPT
                 !.queue = Tail(@) \o messages,
                 !.invoked = Append(@, executor)]

\* The message at the head of the queue is for the executor.
Delivered(executor) ==
  /\ workflow.phase = "running"
  /\ workflow.queue # <<>>
  /\ workflow.queue[1].target = executor

\* main is called: it builds its workflow, lists the receipts and starts
\* results_summary.  All mains of a process see the same environment.
StartRun(mode, configured) ==
  /\ processed < MaxProcessed
  /\ \/ run.mode = "none"
     \/ /\ run.i > Len(Receipts)
        /\ run.mode = mode
        /\ run.configured = configured
  /\ run' = [mode |-> mode, configured |-> configured, i |-> 1,
             results_summary |->
               [total |-> Len(Receipts), successful |-> 0, failed |-> 0,
                results |-> <<>>]]
  /\ workflow' = NoWorkflow
  /\ UNCHANGED <<accumulated_results, output, processed>>
  /\ UNCHANGED <<inbox, suspended, log>>
  /\ UNCHANGED other_vars

\* Variant of Fetched without the test `if not image_data_b64`.
FetchedUnchecked(image) ==
  IF image = "raises" THEN "raised" ELSE "running"

\* What becomes of the receipt after main fetched its image: the workflow
\* runs, the receipt is skipped (`if not image_data_b64`), or the exception
\* of the fetch reaches the except branch.
Fetched(image) ==
  CASE image = "ok" -> "running"
    [] image = "empty" -> "skipped"
    [] OTHER -> "raised"

\* One pass of the loop of main up to workflow.run: the all-agents main
\* deletes the accumulated results of the receipt, both mains fetch the
\* image, skip the receipt when it is empty and record an error when the
\* fetch raises.  `image` is the outcome of this fetch, `storage` that of
\* the fetches made later inside the workflow.
BeginReceipt(image, storage) ==
  /\ run.mode # "none"
  /\ run.i <= Len(Receipts)
  /\ workflow.phase # "running"
  /\ processed < MaxProcessed
  /\ processed' = processed + 1
  /\ LET blob_name == Receipts[run.i]
     IN /\ accumulated_results' =
             IF run.mode = "all_agents"
             THEN [accumulated_results EXCEPT ![blob_name] = <<>>]
             ELSE accumulated_results
        /\ workflow' =
             [NoWorkflow EXCEPT
                !.phase = Fetched(image),
                !.blob_name = blob_name,
                !.image = image,
                !.storage =
                  IF Fetched(image) = "running" THEN storage ELSE "none",
                !.carried = Len(accumulated_results'[blob_name]),
                !.queue =
                  IF Fetched(image) # "running" THEN <<>>
                  ELSE <<[target |-> StartExecutor(run.mode),
                          type |-> "AgentExecutorRequest",
                          message |->
                            IF run.mode = "all_agents"
                            THEN ProcessReceiptText(blob_name)
                            ELSE RequestText(
                                   "Assess the quality of this receipt image",
                                   blob_name, "Image data (base64)")]>>]
        /\ CASE Fetched(image) = "running" -> UNCHANGED run
             [] Fetched(image) = "skipped" -> NextReceipt("skipped")
             [] OTHER -> NextReceipt("error")
  /\ UNCHANGED <<output, inbox, suspended, log>>
  /\ UNCHANGED other_vars

\* dispatch_to_all_agents(request, ctx)
DispatchToAllAgents ==
  /\ Delivered("dispatch_to_all_agents")
  /\ LET blob_name == DispatchedBlobName(workflow.queue[1].message)
     IN CASE workflow.storage = "raises" -> Raise("dispatch_to_all_agents")
          [] workflow.storage = "empty" ->
               /\ Sent("dispatch_to_all_agents", <<>>)
               /\ UNCHANGED <<accumulated_results, output, run>>
          [] OTHER ->
               /\ Sent("dispatch_to_all_agents",
                       SendMessages(3, Edges(run.mode),
                         "dispatch_to_all_agents", "AgentExecutorRequest",
                         RequestText("Process this receipt image",
                                     blob_name, "Image data")))
               /\ UNCHANGED <<accumulated_results, output, run>>
  /\ UNCHANGED <<inbox, suspended, log, processed>>
  /\ UNCHANGED other_vars

\* quality_assessor: the agent replies with an assessment.
QualityAssessor ==
  /\ Delivered("quality_assessor")
  /\ \E response \in Assessments(workflow.queue[1].message) :
       workflow' =
         [workflow EXCEPT
            !.queue = Tail(@) \o
               Deliveries(Edges(run.mode), "quality_assessor",
                          "AgentExecutorResponse", response),
            !.invoked = Append(@, "quality_assessor"),
            !.assessment = Some(response)]
  /\ UNCHANGED <<accumulated_results, output, run>>
  /\ UNCHANGED <<inbox, suspended, log, processed>>
  /\ UNCHANGED other_vars

\* to_mistral_request, to_document_intelligence_request and
\* to_multi_agent_request: the assessment is parsed again and `sends`
\* requests are sent.
ToRequest(executor, head, sends) ==
  /\ Delivered(executor)
  /\ LET assessment == ModelValidateJson(workflow.queue[1].message)
     IN IF assessment = None THEN Raise(executor)
        ELSE /\ Sent(executor,
                     SendMessages(sends, Edges(run.mode), executor,
                       "AgentExecutorRequest",
                       RequestText(head, assessment[1].blob_name,
                                   "Image data")))
             /\ UNCHANGED <<accumulated_results, output, run>>
  /\ UNCHANGED <<inbox, suspended, log, processed>>
  /\ UNCHANGED other_vars

ToMistralRequest ==
  ToRequest("to_mistral_request", "Process this clear receipt image", 1)

ToDocumentIntelligenceRequest ==
  ToRequest("to_document_intelligence_request",
            "Process this blurry receipt image", 1)

ToMultiAgentRequest ==
  ToRequest("to_multi_agent_request",
            "Process this uncertain quality receipt image", 3)

\* A processor: it reads the blob name off the request and fetches the
\* image, outside of any try; without credentials, and when the call to
\* the service fails (as it does for an empty image), it sends an
\* error-tagged result, else the result it extracted.
Process(source) ==
  /\ Delivered(Executor(source))
  /\ LET blob_name == RequestedBlobName(workflow.queue[1].message)
         result ==
           IF source \in run.configured /\ workflow.storage = "ok"
           THEN Extracted(blob_name, source)
           ELSE ErrorResult(blob_name, source)
     IN IF workflow.storage = "raises" THEN Raise(Executor(source))
        ELSE /\ workflow' =
                  [workflow EXCEPT
                     !.queue = Tail(@) \o
                        Deliveries(Edges(run.mode), Executor(source),
                                   "ReceiptExtractionResult", result),
                     !.invoked = Append(@, Executor(source)),
                     !.sent = Append(@, source)]
             /\ UNCHANGED <<accumulated_results, output, run>>
  /\ UNCHANGED <<inbox, suspended, log, processed>>
  /\ UNCHANGED other_vars

DocumentIntelligenceProcessor == Process("document_intelligence")

MistralProcessor == Process("mistral")

DirectExtractionProcessor == Process("direct_extraction")

\* aggregate_results(result, ctx) within a workflow run: what it yields is
\* an output of the run.
Aggregate ==
  /\ Delivered("aggregate_results")
  /\ AggregateResults(workflow.queue[1].message)
  /\ workflow' = [workflow EXCEPT
                    !.queue = Tail(@),
                    !.invoked = Append(@, "aggregate_results"),
                    !.outputs = Append(@, output'[1].yielded)]
  /\ UNCHANGED <<run, inbox, suspended, log, processed>>
  /\ UNCHANGED other_vars

\* workflow.run returns when no message is left: the receipt is a success
\* when events.get_outputs() is not empty, else "no_output".
Finish ==
  /\ workflow.phase = "running"
  /\ workflow.queue = <<>>
  /\ workflow' = [workflow EXCEPT !.phase = "returned"]
  /\ NextReceipt(IF workflow.outputs # <<>> THEN "success"
                 ELSE "no_output")
  /\ UNCHANGED <<accumulated_results, output>>
  /\ UNCHANGED <<inbox, suspended, log, processed>>
  /\ UNCHANGED other_vars

MainNext ==
  \/ \E mode \in Modes : \E configured \in Configurations :
       StartRun(mode, configured)
  \/ \E image \in Retrievals : \E storage \in Retrievals :
       BeginReceipt(image, storage)
  \/ DispatchToAllAgents
  \/ QualityAssessor
  \/ ToMistralRequest
  \/ ToDocumentIntelligenceRequest
  \/ ToMultiAgentRequest
  \/ DocumentIntelligenceProcessor
  \/ MistralProcessor
  \/ DirectExtractionProcessor
  \/ Aggregate
  \/ Finish

MainSpec == Init /\ [][MainNext]_vars

(***************************************************************************)
(* Vocabulary of the properties.                                           *)
(***************************************************************************)

\* The emission of the latest invocation.
Out == output[1]

\* The latest invocation's document has not been cleared since: the list
\* that invocation merged is the document's accumulated list.
Fresh == output # None /\ accumulated_results[output[1].blob_name] # <<>>

\* The list the latest invocation merged.
Arrived == accumulated_results[Out.blob_name]

\* A result is error-tagged when raw_response contains the key "error".
ErrorTagged(r) == "error" \in r.raw_response

NotErrorTagged(r) == ~ErrorTagged(r)

\* A sequence with its error-tagged results removed.
WithoutErrors(results) == SelectSeq(results, NotErrorTagged)

\* A merged record was emitted by the latest invocation.
Merged == Fresh /\ Out.final_data # None

\* The merged record and the aggregation context of the latest invocation.
Final == Out.final_data[1]

Context == Out.aggregation_context[1]

(***************************************************************************)
(* C1: error-tagged results have no effect on the merge.  The merged       *)
(* record and the ranking emitted for a document are those computed from   *)
(* the accumulated sequence with its error-tagged results removed;         *)
(* sources_used has one entry per result that is not error-tagged, and     *)
(* every source named in field_sources or item_sources is the source of a  *)
(* result that is not error-tagged.                                        *)
(***************************************************************************)
C1_ErrorsHaveNoEffect ==
  Fresh =>
    LET clean == WithoutErrors(Arrived)
    IN IF clean = <<>> THEN Out.final_data = None
       ELSE /\ Out.final_data = Some(FinalData(clean))
            /\ Out.aggregation_context = Some(AggregationContext(clean))
            /\ Final.sources_used = [i \in 1..Len(clean) |-> clean[i].source]
            /\ \A f \in DOMAIN Final.metadata.field_sources :
                 Final.metadata.field_sources[f] # None =>
                   \E i \in 1..Len(clean) :
                     clean[i].source = Final.metadata.field_sources[f][1]
            /\ \A n \in 1..Len(Final.items) :
                 \E i \in 1..Len(clean) :
                   /\ clean[i].source = Final.metadata.item_sources[n].source
                   /\ \E k \in 1..Len(clean[i].items) :
                        clean[i].items[k] = Final.items[n]

\* C1 witness: a merged record was emitted from a list that holds an
\* error-tagged result carrying fields and items, and a valid result.
C1_Witness ==
  /\ Merged
  /\ \E i \in 1..Len(Arrived) :
       /\ ErrorTagged(Arrived[i])
       /\ Arrived[i].merchant_name # None
       /\ Arrived[i].items # <<>>
  /\ Len(WithoutErrors(Arrived)) >= 1

(***************************************************************************)
(* C2: when every accumulated result of the document is error-tagged, the  *)
(* invocation yields "No valid results to aggregate" and emits no merged   *)
(* record and no aggregation context; a merged record is emitted only from *)
(* a list with at least one result that is not error-tagged.               *)
(***************************************************************************)
C2_NoValidResults ==
  Fresh =>
    IF \A i \in 1..Len(Arrived) : ErrorTagged(Arrived[i])
    THEN /\ Out.yielded = "No valid results to aggregate"
         /\ Out.final_data = None
         /\ Out.aggregation_context = None
         /\ Out.output_file = None
    ELSE /\ Out.yielded # "No valid results to aggregate"
         /\ Out.final_data # None

\* C2 witness: the latest invocation merged a list of two or more results,
\* all of them error-tagged.
C2_Witness ==
  /\ Fresh
  /\ Len(Arrived) >= 2
  /\ \A i \in 1..Len(Arrived) : ErrorTagged(Arrived[i])
  /\ Out.yielded = "No valid results to aggregate"

(***************************************************************************)
(* Ranking and presence, as the properties state them.                     *)
(***************************************************************************)

ScalarFields ==
  {"merchant_name", "transaction_date", "transaction_time", "total_amount",
   "currency"}

\* Result r has field f set: total_amount is not None; a string field is
\* neither None nor the empty string.
IsSet(r, f) == IF f = "total_amount" THEN r[f] # None ELSE Truthy(r[f])

\* In the list v, the result at i is ranked before the result at j: greater
\* score, or equal score and earlier arrival.
Before(v, i, j) ==
  \/ FinalScore(v[i]) > FinalScore(v[j])
  \/ FinalScore(v[i]) = FinalScore(v[j]) /\ i < j

\* The index of the top-ranked result of a non-empty list.
BaseIndex(v) ==
  CHOOSE i \in 1..Len(v) : \A j \in 1..Len(v) : j # i => Before(v, i, j)

\* The merged record carries the value x (Some(...)) in field f.
Carries(final, f, x) ==
  IF f = "transaction_time" THEN final[f] = x ELSE final[f] = x[1]

\* The results of the latest merge that are not error-tagged, in arrival
\* order.
Valid == WithoutErrors(Arrived)

(***************************************************************************)
(* C3: no-overwrite.  Every scalar field that the base (the top-ranked     *)
(* result) has set keeps the base's value in the merged record and is      *)
(* attributed to the base's source, whatever the lower-ranked results      *)
(* carry.                                                                  *)
(***************************************************************************)
C3_NoOverwrite ==
  Merged =>
    LET base == Valid[BaseIndex(Valid)]
    IN \A f \in ScalarFields :
         IsSet(base, f) =>
           /\ Carries(Final, f, base[f])
           /\ Final.metadata.field_sources[f] = Some(base.source)

\* C3 witness: the base has set a field for which a lower-ranked result
\* carries a different value.
C3_Witness ==
  /\ Merged
  /\ \E f \in ScalarFields : \E j \in 1..Len(Valid) :
       /\ j # BaseIndex(Valid)
       /\ IsSet(Valid[BaseIndex(Valid)], f)
       /\ IsSet(Valid[j], f)
       /\ Valid[j][f] # Valid[BaseIndex(Valid)][f]

(***************************************************************************)
(* C4: strict gap filling.  A scalar field that the base leaves unset      *)
(* takes the value of the highest-ranked result that has it set, and that  *)
(* result's source is recorded in field_sources; results ranked below do   *)
(* not change it.                                                          *)
(***************************************************************************)
C4_GapFilling ==
  Merged =>
    \A f \in ScalarFields :
      ~IsSet(Valid[BaseIndex(Valid)], f) =>
        \A i \in 1..Len(Valid) :
          ( /\ IsSet(Valid[i], f)
            /\ \A j \in 1..Len(Valid) :
                 (j # i /\ Before(Valid, j, i)) => ~IsSet(Valid[j], f) )
          => /\ Carries(Final, f, Valid[i][f])
             /\ Final.metadata.field_sources[f] = Some(Valid[i].source)

\* C4 witness: the base leaves a field unset that two lower-ranked results
\* have set to different values.
C4_Witness ==
  /\ Merged
  /\ \E f \in ScalarFields : \E i, j \in 1..Len(Valid) :
       /\ ~IsSet(Valid[BaseIndex(Valid)], f)
       /\ IsSet(Valid[i], f)
       /\ IsSet(Valid[j], f)
       /\ Valid[i][f] # Valid[j][f]
       /\ Before(Valid, i, j)
       /\ Carries(Final, f, Valid[i][f])

(***************************************************************************)
(* C5: completeness monotonicity.  When an invocation appends a result     *)
(* that is not error-tagged to a list whose merged record was emitted by   *)
(* the invocation before, the earlier results stay in place, every scalar  *)
(* field with a source in the earlier record has a source in the new one,  *)
(* and every item of the earlier record is in the new one (an item being   *)
(* identified by its lower-cased, trimmed description).                    *)
(***************************************************************************)
ItemKeys(final) ==
  {Strip(Lower(final.items[n].description[1])) : n \in 1..Len(final.items)}

FilledFields(final) ==
  {f \in ScalarFields : final.metadata.field_sources[f] # None}

C5_CompletenessMonotone ==
  [][\A d \in Blobs :
       ( /\ Merged
         /\ Out.blob_name = d
         /\ Len(accumulated_results'[d]) = Len(accumulated_results[d]) + 1
         /\ NotErrorTagged(
              accumulated_results'[d][Len(accumulated_results'[d])]) )
       => /\ SubSeq(accumulated_results'[d], 1, Len(accumulated_results[d]))
               = accumulated_results[d]
          /\ output'[1].final_data # None
          /\ FilledFields(Final) \subseteq FilledFields(output'[1].final_data[1])
          /\ ItemKeys(Final) \subseteq ItemKeys(output'[1].final_data[1])
          /\ Len(Final.items) <= Len(output'[1].final_data[1].items)
    ]_vars

\* C5 witness: a merged record with a sourced field and two items was
\* emitted for a list of two results, the later one not error-tagged and
\* ranked above the earlier ones.
C5_Witness ==
  /\ Merged
  /\ Len(Arrived) >= 2
  /\ NotErrorTagged(Arrived[Len(Arrived)])
  /\ Valid[BaseIndex(Valid)] = Arrived[Len(Arrived)]
  /\ Len(Valid) >= 2
  /\ FilledFields(Final) # {}
  /\ Len(Final.items) >= 2

(***************************************************************************)
(* C6: order independence.  When no two results of the merged list that    *)
(* are not error-tagged have equal scores, the merge of every other        *)
(* arrival order of the same results has the same scalar field values,     *)
(* items, field_sources and item_sources as the emitted record.            *)
(***************************************************************************)
Perms(n) ==
  {p \in [1..n -> 1..n] : \A i, j \in 1..n : i # j => p[i] # p[j]}

Permuted(results, p) == [i \in 1..Len(results) |-> results[p[i]]]

DistinctScores(v) ==
  \A i, j \in 1..Len(v) : i # j => FinalScore(v[i]) # FinalScore(v[j])

Content(final) ==
  [merchant_name |-> final.merchant_name,
   transaction_date |-> final.transaction_date,
   transaction_time |-> final.transaction_time,
   total_amount |-> final.total_amount,
   currency |-> final.currency,
   items |-> final.items,
   field_sources |-> final.metadata.field_sources,
   item_sources |-> final.metadata.item_sources]

C6_OrderIndependence ==
  (Merged /\ DistinctScores(Valid)) =>
    \A p \in Perms(Len(Arrived)) :
      Content(FinalData(WithoutErrors(Permuted(Arrived, p))))
        = Content(Final)

\* C6 witness: three results with distinct scores were merged, the base
\* did not arrive first, and fields and items come from several sources.
C6_Witness ==
  /\ Merged
  /\ DistinctScores(Valid)
  /\ Len(Valid) >= 3
  /\ BaseIndex(Valid) # 1
  /\ \E f, g \in ScalarFields :
       /\ Final.metadata.field_sources[f] # None
       /\ Final.metadata.field_sources[g] # None
       /\ Final.metadata.field_sources[f] # Final.metadata.field_sources[g]
  /\ \E m, n \in 1..Len(Final.items) :
       Final.metadata.item_sources[m].source
         # Final.metadata.item_sources[n].source

(***************************************************************************)
(* C8: item de-duplication.  No two merged items have descriptions that    *)
(* are equal after lower-casing and trimming; for every description that   *)
(* is non-empty after trimming and occurs in a result that is not          *)
(* error-tagged, the merged items hold the first item with that key of the *)
(* highest-ranked result that contains the key, and item_sources names     *)
(* that result's source at the same index.                                 *)
(***************************************************************************)
NormKey(description) == Strip(Lower(description))

\* The item has a description whose key is not empty.
HasKey(item) ==
  item.description # None /\ NormKey(item.description[1]) # <<>>

KeyOf(item) == NormKey(item.description[1])

C9_ItemsUnion ==
  Merged =>
    /\ {KeyOf(Final.items[n]) : n \in 1..Len(Final.items)}
         = UNION { {KeyOf(Valid[i].items[k]) :
                      k \in {x \in 1..Len(Valid[i].items) :
                               HasKey(Valid[i].items[x])}} :
                   i \in 1..Len(Valid) }
    /\ \A n \in 1..Len(Final.items) : HasKey(Final.items[n])
    /\ \A n \in 1..Len(Final.metadata.item_sources) :
         HasKey(Final.metadata.item_sources[n])

(***************************************************************************)
(* C10: ranking.  The ranked list of the aggregation context holds the     *)
(* results that are not error-tagged by descending score, results of equal *)
(* score in arrival order, and the base is the first of them.              *)
(***************************************************************************)
Rank(v, i) ==
  1 + Cardinality({j \in 1..Len(v) : j # i /\ Before(v, j, i)})

C10_Ranking ==
  Merged =>
    /\ Len(Context.scoring_details) = Len(Valid)
    /\ \A k \in 1..(Len(Valid) - 1) :
         Context.scoring_details[k].final_score
           >= Context.scoring_details[k + 1].final_score
    /\ \A i \in 1..Len(Valid) :
         LET sd == Context.scoring_details[Rank(Valid, i)]
         IN /\ sd.source = Valid[i].source
            /\ sd.final_score = FinalScore(Valid[i])
            /\ sd.extracted_fields
                 = [merchant_name |-> Valid[i].merchant_name,
                    transaction_date |-> Valid[i].transaction_date,
                    transaction_time |-> Valid[i].transaction_time,
                    total_amount |-> Valid[i].total_amount,
                    currency |-> Valid[i].currency,
                    num_items |-> Len(Valid[i].items)]
    /\ Final.metadata.best_source = Valid[BaseIndex(Valid)].source
    /\ Final.metadata.aggregation_score = FinalScore(Valid[BaseIndex(Valid)])
    /\ \A i \in 1..Len(Valid) :
         Final.metadata.aggregation_score >= FinalScore(Valid[i])

\* C10 witness: three results were ranked, two of them with equal scores
\* and different fields, and the arrival order is not the ranked order.
C10_Witness ==
  /\ Merged
  /\ Len(Valid) >= 3
  /\ \E i, j \in 1..Len(Valid) :
       /\ i < j
       /\ FinalScore(Valid[i]) = FinalScore(Valid[j])
       /\ Valid[i].merchant_name # Valid[j].merchant_name
  /\ \E i \in 1..Len(Valid) : Rank(Valid, i) # i

(***************************************************************************)
(* Scores, as the properties state them, read from the emitted aggregation *)
(* context (completeness times 120, confidence in hundredths, score times  *)
(* 6000).                                                                  *)
(***************************************************************************)

\* The emitted scoring entry of the valid result that arrived i-th.
Details(i) == Context.scoring_details[Rank(Valid, i)]

\* 0.7 * completeness + 0.3 * confidence of a scoring entry, times 6000.
QualityTerm(sd) == 35 * sd.completeness_score + 18 * sd.confidence_score

\* The priority of a source: document_intelligence 3, mistral 2,
\* direct_extraction 1, any other source 0.
Priority(source) ==
  IF source = "document_intelligence" THEN 3
  ELSE IF source = "mistral" THEN 2
  ELSE IF source = "direct_extraction" THEN 1
  ELSE 0

(***************************************************************************)
(* C11: source priority is purely a tie-break.  In the emitted ranked      *)
(* list no result stands behind a result with a strictly smaller quality   *)
(* term 0.7 * completeness + 0.3 * confidence, and among results with      *)
(* equal quality terms the one with the greater priority stands first.     *)
(***************************************************************************)
C11_PriorityTieBreakOnly ==
  Merged =>
    \A k, l \in 1..Len(Context.scoring_details) :
      k < l =>
        LET hi == Context.scoring_details[k]
            lo == Context.scoring_details[l]
        IN /\ QualityTerm(hi) >= QualityTerm(lo)
           /\ QualityTerm(hi) = QualityTerm(lo) =>
                Priority(hi.source) >= Priority(lo.source)

(***************************************************************************)
(* C12: completeness.  For every valid result, the emitted completeness is *)
(* the sum of the weights of its present fields (merchant_name 2,          *)
(* transaction_date 2, total_amount 3, currency 1, transaction_time 1,     *)
(* non-empty items min(0.5 * item count, 5)) divided by the number of      *)
(* present fields, and 0 when no field is present.                         *)
(***************************************************************************)

\* Twice the weight of a scalar field.
Weight2(f) ==
  IF f = "total_amount" THEN 6
  ELSE IF f \in {"merchant_name", "transaction_date"} THEN 4
  ELSE 2

RECURSIVE SumWeight2(_)
SumWeight2(fields) ==
  IF fields = {} THEN 0
  ELSE LET f == CHOOSE x \in fields : TRUE
       IN Weight2(f) + SumWeight2(fields \ {f})

\* The scalar fields that result r has set.
PresentFields(r) == {f \in ScalarFields : IsSet(r, f)}

\* Twice min(0.5 * n, 5).
ItemsWeight2(n) == IF n > 10 THEN 10 ELSE n

\* The number of present fields of r, the items counting as one.
PresentCount(r) ==
  Cardinality(PresentFields(r)) + (IF r.items # <<>> THEN 1 ELSE 0)

\* Twice the sum of the weights of the present fields of r.
PresentWeight2(r) ==
  SumWeight2(PresentFields(r))
    + (IF r.items # <<>> THEN ItemsWeight2(Len(r.items)) ELSE 0)

C12_Completeness ==
  Merged =>
    \A i \in 1..Len(Valid) :
      IF PresentCount(Valid[i]) = 0
      THEN Details(i).completeness_score = 0
      ELSE Details(i).completeness_score * PresentCount(Valid[i])
             = 60 * PresentWeight2(Valid[i])

\* C12 witness: the merged list holds a result with more than ten items, a
\* result with no field present and a result with some but not all fields.
C12_Witness ==
  /\ Merged
  /\ \E i \in 1..Len(Valid) : Len(Valid[i].items) > 10
  /\ \E i \in 1..Len(Valid) : PresentCount(Valid[i]) = 0
  /\ \E i \in 1..Len(Valid) :
       PresentCount(Valid[i]) \in 1..5 /\ Details(i).completeness_score > 0

(***************************************************************************)
(* C13: score.  For every valid result, the emitted score is               *)
(* 0.7 * completeness + 0.3 * confidence + 0.01 * priority(source), where  *)
(* the confidence is the result's confidence_score when it is present (a   *)
(* reported 0 is used as 0) and 0.5 only when it is absent; the score of a *)
(* result is the same in every list it is ranked in.                       *)
(***************************************************************************)

\* The confidence that enters the score of r, in hundredths.
ReportedConfidence(r) ==
  IF r.confidence_score = None THEN 50 ELSE r.confidence_score[1]

\* The score of r times 6000, from the weights of its present fields, its
\* confidence and the priority of its source alone (the number of present
\* fields divides 60).
ScoreOf(r) ==
  IF PresentCount(r) = 0
  THEN 18 * ReportedConfidence(r) + 60 * Priority(r.source)
  ELSE (35 * 60 * PresentWeight2(r)) \div PresentCount(r)
         + 18 * ReportedConfidence(r) + 60 * Priority(r.source)

C13_Score ==
  Merged =>
    \A i \in 1..Len(Valid) :
      /\ Details(i).confidence_score = ReportedConfidence(Valid[i])
      /\ Details(i).final_score
           = 35 * Details(i).completeness_score
               + 18 * Details(i).confidence_score
               + 60 * Priority(Valid[i].source)
      /\ Details(i).final_score = ScoreOf(Valid[i])

\* C13 witness: the merged list holds a result that reports a confidence of
\* 0, a result that reports none and a result that reports another one, of
\* three different sources.
C13_Witness ==
  /\ Merged
  /\ \E i, j, k \in 1..Len(Valid) :
       /\ Valid[i].confidence_score = Some(0)
       /\ Valid[j].confidence_score = None
       /\ Valid[k].confidence_score \notin {None, Some(0)}
       /\ Valid[i].source # Valid[k].source
       /\ Details(i).final_score # Details(j).final_score

(***************************************************************************)
(* C14: a total_amount of 0 counts as present.  A valid result whose total *)
(* is 0 earns the weight 3 for it and, when no result ranked above it has  *)
(* a total, the merged total is 0 and field_sources names the source of    *)
(* that result, whatever totals the results ranked below it carry.         *)
(***************************************************************************)
C14_ZeroTotalPresent ==
  Merged =>
    \A i \in 1..Len(Valid) :
      Valid[i].total_amount = Some(0) =>
        LET others == PresentFields(Valid[i]) \ {"total_amount"}
            items == Valid[i].items
        IN /\ Details(i).completeness_score
                  * (Cardinality(others) + 1
                       + (IF items # <<>> THEN 1 ELSE 0))
                = 60 * (SumWeight2(others) + 6
                          + (IF items # <<>> THEN ItemsWeight2(Len(items))
                             ELSE 0))
           /\ (\A j \in 1..Len(Valid) :
                 (j # i /\ Before(Valid, j, i)) =>
                   Valid[j].total_amount = None)
              => /\ Final.total_amount = 0
                 /\ Final.metadata.field_sources["total_amount"]
                      = Some(Valid[i].source)

\* C14 witness: a result with total 0 is the highest-ranked result that has
\* a total, it is not the base, and a result ranked below it has a total
\* that is not 0 and another source.
C14_Witness ==
  /\ Merged
  /\ \E i, j \in 1..Len(Valid) :
       /\ Valid[i].total_amount = Some(0)
       /\ i # BaseIndex(Valid)
       /\ \A k \in 1..Len(Valid) :
            (k # i /\ Before(Valid, k, i)) => Valid[k].total_amount = None
       /\ Before(Valid, i, j)
       /\ Valid[j].total_amount \notin {None, Some(0)}
       /\ Valid[j].source # Valid[i].source
       /\ Final.metadata.field_sources["total_amount"]
            = Some(Valid[i].source)

\* The same case for the base: the base has total 0 and another result has
\* a total that is not 0.
C14_BaseWitness ==
  /\ Merged
  /\ \E j \in 1..Len(Valid) :
       /\ Valid[BaseIndex(Valid)].total_amount = Some(0)
       /\ j # BaseIndex(Valid)
       /\ Valid[j].total_amount \notin {None, Some(0)}

(***************************************************************************)
(* C15: output defaults.  A default ("Unknown", "USD", 0.0) appears in a   *)
(* merged record only for a field that no valid result supplied: when some *)
(* valid result supplied merchant_name, transaction_date, currency or      *)
(* total_amount, the merged record carries a supplied value; a field that  *)
(* no valid result supplied has no source in field_sources; and            *)
(* transaction_time is null when no valid result supplied it.  A value is  *)
(* supplied when the extraction found it in the document, not when the     *)
(* processor put a default in its place.                                   *)
(***************************************************************************)

\* The currency of result r is the default of the OCR processor: r was built
\* from a response in whose text no currency was found.
CurrencyDefaulted(r) ==
  \E mistral_result \in MistralResponses :
    /\ "content" \in DOMAIN mistral_result
    /\ ~Truthy(mistral_result.content.currency)
    /\ r = MistralResult(r.blob_name, mistral_result)

\* Result r supplied field f.
Supplied(r, f) ==
  IsSet(r, f) /\ ~(f = "currency" /\ CurrencyDefaulted(r))

SomeSupplied(f) == \E i \in 1..Len(Valid) : Supplied(Valid[i], f)

C15_DefaultsOnlyWhenUnsupplied ==
  Merged =>
    /\ \A f \in ScalarFields \ {"transaction_time"} :
         /\ SomeSupplied(f) =>
              \E i \in 1..Len(Valid) :
                Supplied(Valid[i], f) /\ Carries(Final, f, Valid[i][f])
         /\ ~SomeSupplied(f) => Final.metadata.field_sources[f] = None
    /\ ~SomeSupplied("transaction_time") =>
         /\ Final.transaction_time = None
         /\ Final.metadata.field_sources["transaction_time"] = None

(***************************************************************************)
(* C16: field provenance.  In every emitted merged record and for each     *)
(* scalar field f, field_sources[f] is null exactly when no valid          *)
(* accumulated result has f set, and otherwise it is the source of a valid *)
(* accumulated result that has f set to the value the merged record        *)
(* carries.                                                                *)
(***************************************************************************)
C16_FieldProvenance ==
  Merged =>
    \A f \in ScalarFields :
      IF \A i \in 1..Len(Valid) : ~IsSet(Valid[i], f)
      THEN Final.metadata.field_sources[f] = None
      ELSE /\ Final.metadata.field_sources[f] # None
           /\ \E i \in 1..Len(Valid) :
                /\ Valid[i].source = Final.metadata.field_sources[f][1]
                /\ IsSet(Valid[i], f)
                /\ Carries(Final, f, Valid[i][f])

\* C16 witness: a merged record whose fields come from two sources, with a
\* field that no valid result has set, a field that a result of the source
\* named for another field has set to a different value, and a result that
\* carries an empty string.
C16_Witness ==
  /\ Merged
  /\ \E f, g, h \in ScalarFields :
       /\ Final.metadata.field_sources[f] = None
       /\ Final.metadata.field_sources[g] # None
       /\ Final.metadata.field_sources[h] # None
       /\ Final.metadata.field_sources[g] # Final.metadata.field_sources[h]
       /\ \E i \in 1..Len(Valid) :
            /\ Valid[i].source = Final.metadata.field_sources[h][1]
            /\ IsSet(Valid[i], g)
            /\ ~Carries(Final, g, Valid[i][g])
  /\ \E i \in 1..Len(Valid) : \E f \in ScalarFields \ {"total_amount"} :
       Valid[i][f] = Some("")

(***************************************************************************)
(* C17: sources_used.  In every emitted merged record sources_used has one *)
(* entry per accumulated result that is not error-tagged, holding the      *)
(* sources of these results in arrival order (not in ranked order); an     *)
(* error-tagged result contributes no entry.                               *)
(***************************************************************************)

\* The positions in the accumulated list of the results that are not
\* error-tagged.
ValidPositions == {i \in 1..Len(Arrived) : ~ErrorTagged(Arrived[i])}

\* The number of results that are not error-tagged among the first i.
ValidUpTo(i) == Cardinality({j \in ValidPositions : j <= i})

C17_SourcesUsed ==
  Merged =>
    /\ Len(Final.sources_used) = Cardinality(ValidPositions)
    /\ \A i \in ValidPositions :
         Final.sources_used[ValidUpTo(i)] = Arrived[i].source

\* C17 witness: three results arrived, one of them error-tagged and from a
\* source that delivered no valid result, and the two valid ones arrived in
\* the reverse of their ranked order.
C17_Witness ==
  /\ Merged
  /\ Len(Arrived) = 3
  /\ \E e \in 1..3 :
       /\ ErrorTagged(Arrived[e])
       /\ \A i \in ValidPositions : Arrived[i].source # Arrived[e].source
  /\ Len(Valid) = 2
  /\ Valid[1].source # Valid[2].source
  /\ Context.scoring_details[1].source = Valid[2].source
  /\ Final.sources_used = <<Valid[1].source, Valid[2].source>>

(***************************************************************************)
(* C18: item_sources is parallel to items.  In every emitted merged record *)
(* both lists have the same length and, at each index, item_sources holds  *)
(* the description of the item at that index and the source of the result  *)
(* the item was taken from: the highest-ranked valid result that holds an  *)
(* item with that key.                                                     *)
(***************************************************************************)

\* The item has a description that the merge can key.
Keyed(item) == item.description # None /\ item.description[1] # <<>>

\* The valid result that arrived i-th holds the item, and no valid result
\* ranked above it holds an item of the same key.
TakenFrom(item, i) ==
  /\ \E k \in 1..Len(Valid[i].items) : Valid[i].items[k] = item
  /\ \A j \in 1..Len(Valid) :
       (j # i /\ Before(Valid, j, i)) =>
         \A k \in 1..Len(Valid[j].items) :
           Keyed(Valid[j].items[k]) =>
             NormKey(Valid[j].items[k].description[1])
               # NormKey(item.description[1])

C18_ItemSourcesParallel ==
  Merged =>
    /\ Len(Final.metadata.item_sources) = Len(Final.items)
    /\ \A n \in 1..Len(Final.items) :
         /\ Final.metadata.item_sources[n].description
              = Final.items[n].description
         /\ \E i \in 1..Len(Valid) :
              /\ Valid[i].source = Final.metadata.item_sources[n].source
              /\ TakenFrom(Final.items[n], i)

\* C18 witness: the merged items come from two sources, and a lower-ranked
\* result holds an item whose key the merged items already had from a
\* result of another source.
C18_Witness ==
  /\ Merged
  /\ \E m, n \in 1..Len(Final.items) :
       Final.metadata.item_sources[m].source
         # Final.metadata.item_sources[n].source
  /\ \E n \in 1..Len(Final.items) : \E j \in 1..Len(Valid) :
       /\ Valid[j].source # Final.metadata.item_sources[n].source
       /\ \E k \in 1..Len(Valid[j].items) :
            /\ Keyed(Valid[j].items[k])
            /\ NormKey(Valid[j].items[k].description[1])
                 = NormKey(Final.items[n].description[1])
            /\ Valid[j].items[k] # Final.items[n]

(***************************************************************************)
(* C19: metadata.  In every emitted merged record source_scores holds the  *)
(* score of every valid result under its source, best_source is the source *)
(* of the top-ranked result, aggregation_score is that result's score, so  *)
(* that source_scores[best_source] = aggregation_score, and                *)
(* confidence_score and completeness_score are those of the base.          *)
(***************************************************************************)
C19_Metadata ==
  Merged =>
    LET meta == Final.metadata
        top == Context.scoring_details[1]
    IN /\ \A i \in 1..Len(Valid) :
            /\ Valid[i].source \in DOMAIN meta.source_scores
            /\ meta.source_scores[Valid[i].source] = Details(i).final_score
       /\ meta.best_source = Valid[BaseIndex(Valid)].source
       /\ meta.best_source = top.source
       /\ meta.aggregation_score = top.final_score
       /\ meta.source_scores[meta.best_source] = meta.aggregation_score
       /\ meta.confidence_score = top.confidence_score
       /\ meta.completeness_score = top.completeness_score

(***************************************************************************)
(* C20: atomic append and merge.  Under every interleaving of the          *)
(* concurrent invocations of aggregate_results for one document, the k-th  *)
(* invocation merges the first k results of the document's arrival         *)
(* sequence (its own result last) and emits the merge of exactly that      *)
(* prefix, no two invocations merge the same list, the last emitted record *)
(* is the merge of all delivered results, and every step that appends a    *)
(* result also emits the merge of the list it has produced.                *)
(***************************************************************************)

\* The merged record of a list of results: null when none of them is valid.
MergeOf(results) ==
  IF WithoutErrors(results) = <<>> THEN None
  ELSE Some(FinalData(WithoutErrors(results)))

C20_AtomicAppendMerge ==
  /\ [](\A k \in 1..Len(log) :
          LET arrival == accumulated_results[log[k].result.blob_name]
          IN /\ k <= Len(arrival)
             /\ arrival[k] = log[k].result
             /\ log[k].results = SubSeq(arrival, 1, k)
             /\ log[k].final_data = MergeOf(SubSeq(arrival, 1, k))
             /\ \A l \in 1..Len(log) :
                  l # k => log[l].results # log[k].results
             /\ inbox = {} =>
                  /\ Len(arrival) = Len(log)
                  /\ Cardinality({arrival[i] : i \in 1..Len(arrival)})
                       = Cardinality(Processors)
                  /\ output[1].final_data = MergeOf(arrival))
  /\ [][\A d \in Blobs :
          accumulated_results'[d] # accumulated_results[d] =>
            \E result \in inbox :
              /\ result.blob_name = d
              /\ inbox' = inbox \ {result}
              /\ accumulated_results'[d]
                   = Append(accumulated_results[d], result)
              /\ output'[1].final_data = MergeOf(accumulated_results'[d])
              /\ Len(log') = Len(log) + 1
       ]_vars

\* C20 witness: the three invocations for a document have run while the
\* first two were still suspended at their await, the results arrived in an
\* order that is not the ranked order, and the last record merges fields of
\* two sources.
C20_Witness ==
  /\ inbox = {}
  /\ Len(log) = 3
  /\ Cardinality(suspended) = 3
  /\ output[1].final_data # None
  /\ LET arrival == accumulated_results[log[1].result.blob_name]
     IN /\ Len(WithoutErrors(arrival)) = 3
        /\ FinalScore(arrival[1]) < FinalScore(arrival[3])
        /\ log[1].final_data # log[3].final_data
        /\ \E f, g \in ScalarFields :
             LET sources == output[1].final_data[1].metadata.field_sources
             IN sources[f] # None /\ sources[g] # None
                  /\ sources[f] # sources[g]

(***************************************************************************)
(* C21: the merge is recomputed from scratch at every arrival.  After      *)
(* every invocation of aggregate_results for a document d, the emitted     *)
(* merged record is the merge of exactly the results then accumulated for  *)
(* d, whatever was emitted before; with at least one valid result in the   *)
(* list a record is emitted, whichever sources have reported so far.       *)
(***************************************************************************)

\* The step is an invocation of aggregate_results for document d.
Invoked(d) == Len(accumulated_results'[d]) > Len(accumulated_results[d])

C21_RecomputedFromScratch ==
  [][\A d \in Blobs :
       Invoked(d) =>
         /\ output' # None
         /\ output'[1].blob_name = d
         /\ output'[1].final_data = MergeOf(accumulated_results'[d])
         /\ WithoutErrors(accumulated_results'[d]) # <<>> =>
              /\ output'[1].final_data # None
              /\ output'[1].output_file # None
              /\ output'[1].aggregation_context # None]_vars

\* A record was emitted from the results of two of the three sources, and it
\* differs from the record emitted at the arrival before.
C21_Witness ==
  /\ Merged
  /\ Len(Arrived) >= 2
  /\ Cardinality({Arrived[i].source : i \in 1..Len(Arrived)}) = 2
  /\ Out.intermediary = Arrived[Len(Arrived)]
  /\ MergeOf(SubSeq(Arrived, 1, Len(Arrived) - 1)) # None
  /\ MergeOf(SubSeq(Arrived, 1, Len(Arrived) - 1)) # Out.final_data

(***************************************************************************)
(* C23: frame of an invocation.  An invocation of aggregate_results for    *)
(* document d appends exactly one result, the one it was given, to the     *)
(* list of d, error-tagged or of a source already in the list; the earlier *)
(* entries keep their places, the list of every other document is          *)
(* unchanged, and the merged record of d is made of results of d only.     *)
(***************************************************************************)
C23_AppendOnlyOwnList ==
  [][\A d \in Blobs :
       Invoked(d) =>
         /\ output' # None
         /\ output'[1].intermediary.blob_name = d
         /\ accumulated_results'[d] =
              Append(accumulated_results[d], output'[1].intermediary)
         /\ \A e \in Blobs \ {d} :
              accumulated_results'[e] = accumulated_results[e]
         /\ \A i \in 1..Len(accumulated_results'[d]) :
              accumulated_results'[d][i].blob_name = d
         /\ output'[1].final_data # None =>
              \A i \in 1..Len(output'[1].final_data[1].sources_used) :
                \E k \in 1..Len(accumulated_results'[d]) :
                  /\ accumulated_results'[d][k].source =
                       output'[1].final_data[1].sources_used[i]
                  /\ accumulated_results'[d][k].blob_name = d]_vars

\* The list of the latest invocation holds an error-tagged result and two
\* results of one source, while another document has a result of its own.
C23_Witness ==
  /\ Merged
  /\ \E i, k \in 1..Len(Arrived) :
       i < k /\ Arrived[i].source = Arrived[k].source
  /\ \E i \in 1..Len(Arrived) : ErrorTagged(Arrived[i])
  /\ \E e \in Blobs :
       e # Out.blob_name /\ accumulated_results[e] # <<>>

(***************************************************************************)
(* Vocabulary of the properties of the mains.                              *)
(***************************************************************************)

\* Number of entries of a sequence equal to x.
Count(seq, x) == Cardinality({i \in 1..Len(seq) : seq[i] = x})

\* The results accumulated for the receipt of the latest workflow run.
Accumulated == accumulated_results[workflow.blob_name]

\* The results appended by the latest workflow run.
ThisRun == SubSeq(Accumulated, workflow.carried + 1, Len(Accumulated))

\* A receipt was taken up by the loop of main.
Begun == workflow.phase # "none"

\* The loop of main is through with the receipt.
Done == workflow.phase \in {"returned", "raised", "skipped"}

\* The entries of results_summary, and the entry of the latest receipt.
Entries == run.results_summary.results

LastEntry == Entries[Len(Entries)]

\* The reply of the quality assessor in the latest workflow run.
Assessed == workflow.assessment # None

Assessment == workflow.assessment[1]

\* Number of invocations of the processor of a source in the latest run.
Invocations(source) == Count(workflow.invoked, Executor(source))

(***************************************************************************)
(* C22: the accumulated results of a receipt are cleared before it is      *)
(* processed.  In both modes, when the loop of main takes up a receipt its *)
(* accumulated list is empty before the workflow runs, so every merged     *)
(* record emitted in the run is the merge of the results appended in that  *)
(* run only.                                                               *)
(***************************************************************************)
C22_ClearedBeforeProcessing ==
  /\ [][processed' = processed + 1 =>
          accumulated_results'[Receipts[run.i]] = <<>>]_vars
  /\ [](Begun =>
          /\ workflow.carried = 0
          /\ workflow.outputs # <<>> =>
               /\ output[1].blob_name = workflow.blob_name
               /\ output[1].final_data = MergeOf(ThisRun))

(***************************************************************************)
(* C24: a processor answers every request with exactly one result.  In     *)
(* every workflow run each processor has sent as many results as it was    *)
(* invoked, no exception leaves a processor, a processor that could not    *)
(* extract sends an error-tagged result, and every result sent reaches     *)
(* aggregate_results before the run returns.                               *)
(***************************************************************************)
C24_OneResultPerRequest ==
  Begun =>
    /\ \A source \in Processors :
         Count(workflow.sent, source) = Invocations(source)
    /\ workflow.phase = "raised" /\ workflow.invoked # <<>> =>
         workflow.invoked[Len(workflow.invoked)] \notin ProcessorIds
    /\ \A i \in 1..Len(ThisRun) :
         \/ ThisRun[i].source \in run.configured /\ workflow.storage = "ok"
         \/ ErrorTagged(ThisRun[i])
    /\ workflow.phase = "returned" =>
         /\ Len(ThisRun) = Len(workflow.sent)
         /\ \A i \in 1..Len(ThisRun) : ThisRun[i].source = workflow.sent[i]

(***************************************************************************)
(* C25: quality routing.  In quality-routed mode a receipt assessed clear  *)
(* is processed by mistral only, one assessed blurry by                    *)
(* document_intelligence only, one assessed uncertain by all three         *)
(* processors, and one assessed with any other label by none: no processor *)
(* outside the selection is ever invoked, and when the run returns every   *)
(* selected processor was invoked and has its result accumulated.          *)
(***************************************************************************)

\* The sources that a quality label selects.
Selected(quality) ==
  CASE quality = "clear" -> {"mistral"}
    [] quality = "blurry" -> {"document_intelligence"}
    [] quality = "uncertain" -> Processors
    [] OTHER -> {}

C25_QualityRouting ==
  run.mode = "quality_routed" /\ Begun =>
    /\ ~Assessed =>
         \A source \in Processors : Invocations(source) = 0
    /\ Assessed /\ Assessment.json =>
         /\ \A source \in Processors \ Selected(Assessment.quality) :
              /\ Invocations(source) = 0
              /\ \A i \in 1..Len(ThisRun) : ThisRun[i].source # source
         /\ workflow.phase = "returned" =>
              \A source \in Selected(Assessment.quality) :
                /\ Invocations(source) >= 1
                /\ \E i \in 1..Len(ThisRun) : ThisRun[i].source = source

\* A run returned for a receipt assessed clear: mistral processed it and
\* the other two processors were left out.
C25_Witness ==
  /\ run.mode = "quality_routed"
  /\ workflow.phase = "returned"
  /\ Assessed /\ Assessment.json /\ Assessment.quality = "clear"
  /\ Invocations("mistral") >= 1
  /\ ThisRun # <<>>
  /\ \A i \in 1..Len(ThisRun) : ThisRun[i].source = "mistral"

(***************************************************************************)
(* C26: a reply of the quality assessor that is no assessment.  Every edge *)
(* condition is false for it: no request executor and no processor is      *)
(* invoked, nothing is accumulated for the receipt, no exception leaves    *)
(* the workflow, the receipt is recorded as no_output, and the loop stands *)
(* at the next receipt, which it can take up.                              *)
(***************************************************************************)

\* The loop of main can take up the next receipt of the listing.
CanGoOn ==
  run.i <= Len(Receipts) /\ processed < MaxProcessed =>
    ENABLED (\E image \in Retrievals : \E storage \in Retrievals :
               BeginReceipt(image, storage))

C26_UnparseableAssessment ==
  Begun /\ Assessed /\ ~Assessment.json =>
    /\ \A expected \in {"clear", "blurry", "uncertain"} :
         ~QualityCondition(expected, "AgentExecutorResponse", Assessment)
    /\ workflow.invoked = <<"quality_assessor">>
    /\ workflow.queue = <<>>
    /\ workflow.sent = <<>>
    /\ ThisRun = <<>>
    /\ workflow.phase \in {"running", "returned"}
    /\ workflow.phase = "returned" =>
         /\ LastEntry =
              [blob_name |-> workflow.blob_name, status |-> "no_output"]
         /\ run.i = Len(Entries) + 1
         /\ CanGoOn

\* The first receipt of a run got a reply that is no assessment and was
\* recorded, and the loop can take up the second.
C26_Witness ==
  /\ Assessed /\ ~Assessment.json
  /\ workflow.phase = "returned"
  /\ workflow.blob_name = Receipts[1]
  /\ run.i = 2
  /\ processed < MaxProcessed
  /\ CanGoOn

(***************************************************************************)
(* C27: fan-out.  When a receipt goes to all sources (every receipt of the *)
(* all-agents mode, a receipt assessed uncertain in quality-routed mode),  *)
(* no processor is invoked more than once for it, and when the run returns *)
(* each processor was invoked exactly once and the run has accumulated     *)
(* exactly one result of each source, three at most.                       *)
(***************************************************************************)

\* The latest workflow run sends its receipt to all sources.
FansOut ==
  \/ run.mode = "all_agents" /\ workflow.storage = "ok"
  \/ /\ run.mode = "quality_routed"
     /\ Assessed /\ Assessment.json /\ Assessment.quality = "uncertain"

C27_FanOutOnce ==
  Begun /\ FansOut =>
    /\ \A source \in Processors : Invocations(source) <= 1
    /\ Len(ThisRun) <= 3
    /\ workflow.phase = "returned" =>
         \A source \in Processors :
           /\ Invocations(source) = 1
           /\ Cardinality({i \in 1..Len(ThisRun) :
                             ThisRun[i].source = source}) = 1

(***************************************************************************)
(* C28: a receipt whose image cannot be retrieved.  When the fetch of main *)
(* or that of the all-agents dispatcher returns nothing or raises, no      *)
(* request for the receipt reaches a processor, no result is appended for  *)
(* it, and the receipt is counted as failed with status skipped or error.  *)
(***************************************************************************)

\* The fetch of main failed, or main's succeeded and the dispatcher's
\* failed.
MainFetchFailed == workflow.image \in {"empty", "raises"}

DispatcherFetchFailed ==
  run.mode = "all_agents" /\ workflow.storage \in {"empty", "raises"}

\* No request reached a processor and nothing was appended in the latest
\* workflow run; once the loop is through with the receipt it is counted
\* as failed.
NotProcessed ==
  /\ \A source \in Processors : Invocations(source) = 0
  /\ Count(workflow.invoked, "aggregate_results") = 0
  /\ ThisRun = <<>>
  /\ Done =>
       /\ LastEntry.blob_name = workflow.blob_name
       /\ LastEntry.status # "success"
       /\ run.results_summary.failed >= 1

C28_SkippedOrError ==
  Begun /\ (MainFetchFailed \/ DispatcherFetchFailed) =>
    /\ NotProcessed
    /\ Done => LastEntry.status \in {"skipped", "error"}

\* C28 as amended: the status is skipped or error when the fetch of main
\* fails and error when that of the dispatcher raises, and it is no_output
\* when the fetch of the dispatcher returns nothing.
C28_Unretrievable ==
  /\ Begun /\ MainFetchFailed =>
       /\ NotProcessed
       /\ workflow.invoked = <<>>
       /\ Done
       /\ LastEntry.status =
            IF workflow.image = "empty" THEN "skipped" ELSE "error"
  /\ Begun /\ DispatcherFetchFailed =>
       /\ NotProcessed
       /\ Done =>
            LastEntry.status =
              IF workflow.storage = "empty" THEN "no_output" ELSE "error"

\* The image was fetched by main, the dispatcher got nothing, and the
\* workflow returned without any processor invoked.
C28_Witness ==
  /\ run.mode = "all_agents"
  /\ workflow.image = "ok"
  /\ workflow.storage = "empty"
  /\ workflow.phase = "returned"
  /\ workflow.invoked = <<"dispatch_to_all_agents">>
  /\ LastEntry.status = "no_output"

(***************************************************************************)
(* C29: success means a merged record.  A receipt is recorded as success   *)
(* only if an invocation of aggregate_results of its workflow run emitted  *)
(* a merged record, and never when every result of the run is error-       *)
(* tagged.                                                                 *)
(***************************************************************************)
C29_SuccessMeansMerged ==
  workflow.phase = "returned" /\ LastEntry.status = "success" =>
    /\ Count(workflow.outputs, "Receipt processing complete") >= 1
    /\ \E i \in 1..Len(ThisRun) : ~ErrorTagged(ThisRun[i])

(***************************************************************************)
(* C30: the run summary.  Every receipt the loop is through with has one   *)
(* entry, in listing order, with one of the four statuses, and has         *)
(* incremented one counter: successful counts the success entries, failed  *)
(* the others, and at the end of the run successful + failed = total =     *)
(* number of entries.  Each pass of the loop adds one entry and one to one *)
(* counter, and after an exception the loop can take up the next receipt.  *)
(***************************************************************************)

\* Number of entries with the status.
WithStatus(status) ==
  Cardinality({k \in 1..Len(Entries) : Entries[k].status = status})

C30_SummaryAccounting ==
  /\ [](LET summary == run.results_summary
        IN /\ Len(Entries) = IF run.mode = "none" THEN 0 ELSE run.i - 1
           /\ \A k \in 1..Len(Entries) :
                /\ Entries[k].blob_name = Receipts[k]
                /\ Entries[k].status \in
                     {"success", "skipped", "no_output", "error"}
           /\ summary.successful = WithStatus("success")
           /\ summary.failed = Len(Entries) - WithStatus("success")
           /\ summary.successful + summary.failed = Len(Entries)
           /\ run.i > Len(Receipts) =>
                /\ summary.total = Len(Entries)
                /\ summary.successful + summary.failed = summary.total
           /\ Done =>
                /\ run.i = Len(Entries) + 1
                /\ LastEntry.blob_name = workflow.blob_name
                /\ workflow.phase = "raised" =>
                     LastEntry.status = "error" /\ CanGoOn)
  /\ [][run'.mode = run.mode /\ run'.i = run.i + 1 =>
          LET before == run.results_summary
              after == run'.results_summary
          IN /\ Len(after.results) = Len(before.results) + 1
             /\ SubSeq(after.results, 1, Len(before.results)) =
                  before.results
             /\ after.successful + after.failed =
                  before.successful + before.failed + 1
             /\ after.successful >= before.successful
             /\ after.failed >= before.failed
             /\ after.total = before.total]_vars

\* A run is over whose first receipt raised an exception and whose second
\* receipt was processed with success.
C30_Witness ==
  /\ run.i > Len(Receipts)
  /\ Len(Entries) = 2
  /\ Entries[1].status = "error"
  /\ Entries[2].status = "success"
  /\ run.results_summary.successful = 1
  /\ run.results_summary.failed = 1

(***************************************************************************)
(* C33.  Within a run, two distinct document ids never share persisted     *)
(* output files: when an invocation of the aggregator writes the files of  *)
(* one document right after those of another document, it writes neither   *)
(* to the intermediary file nor to the receipt file (and with it the       *)
(* aggregation context file, named after the same safe name) that the      *)
(* earlier invocation wrote.                                               *)
(***************************************************************************)
C33_DistinctDocumentsDistinctFiles ==
  [][(/\ output # None
      /\ output' # None
      /\ output'[1].blob_name # output[1].blob_name)
     => /\ output'[1].intermediary_file # output[1].intermediary_file
        /\ (output[1].output_file # None /\ output'[1].output_file # None)
             => output'[1].output_file # output[1].output_file]_vars

(***************************************************************************)
(* The scoring of lines 708-759 as a function of one result.  A result is  *)
(* drawn with no field present and grows by one field or one item at a     *)
(* time, so every ReceiptExtractionResult over the values below is scored  *)
(* next to the result that has one field or item less.                     *)
(***************************************************************************)

\* The longest item list scored: one more than the 10 items at which
\* item_score reaches its cap of 5.0.
MaxItems == 11

\* Values of the optional fields of ReceiptExtractionResult that count as
\* present in the scoring.
FieldValues(field) ==
  CASE field = "merchant_name" -> {Some("Cafe")}
    [] field = "transaction_date" -> {Some("2024-05-01")}
    [] field = "transaction_time" -> {Some("10:15")}
    [] field = "total_amount" -> {Some(0), Some(1250)}
    [] field = "currency" -> {Some("EUR")}

\* confidence_score: absent, or 0.0, 0.85, 0.9.
ConfidenceScores == {None, Some(0), Some(85), Some(90)}

\* A ReceiptExtractionResult with the defaults of lines 64-69, but for a
\* merchant_name that may be the empty string.
Sparse(source, merchant, confidence) ==
  Result(Receipts[1], source, merchant, None, None, None, None, <<>>,
         confidence, {"documents"})

\* The entry of scored_results for a result with no field present.
ScoreInit ==
  /\ accumulated_results = [b \in Blobs |-> <<>>]
  /\ output = None
  /\ inbox = {}
  /\ suspended = {}
  /\ log = <<>>
  /\ run = NoRun
  /\ workflow = NoWorkflow
  /\ processed = 0
  /\ roundtrip = None
  /\ load_test = None
  /\ poll = None
  /\ \E source \in Processors, merchant \in {None, Some("")},
        confidence \in ConfidenceScores :
       extraction = Scored(Sparse(source, merchant, confidence))

\* The entry of scored_results for the result that has `field` besides.
Populate(field, value) ==
  /\ ~ IsSet(extraction.result, field)
  /\ extraction' = Scored([extraction.result EXCEPT ![field] = value])
  /\ UNCHANGED <<workflow_vars, roundtrip, load_test, poll>>

\* The entry of scored_results for the result that has one more item.
AppendItem(item) ==
  /\ Len(extraction.result.items) < MaxItems
  /\ extraction' =
       Scored([extraction.result EXCEPT !.items = Append(@, item)])
  /\ UNCHANGED <<workflow_vars, roundtrip, load_test, poll>>

ScoreNext ==
  \/ \E field \in ScalarFields : \E value \in FieldValues(field) :
       Populate(field, value)
  \/ AppendItem(Tea)

ScoreSpec == ScoreInit /\ [][ScoreNext]_vars

(***************************************************************************)
(* C32.  Populating an additional field never lowers a result's score:     *)
(* when a result gets one more field present (or one more item) at the     *)
(* same source and confidence, with every field that was present still     *)
(* present, its completeness and its score are greater than or equal to    *)
(* those it had.                                                           *)
(***************************************************************************)
Populated ==
  /\ extraction'.result.source = extraction.result.source
  /\ extraction'.result.confidence_score
       = extraction.result.confidence_score
  /\ PresentFields(extraction.result)
       \subseteq PresentFields(extraction'.result)
  /\ Len(extraction'.result.items) >= Len(extraction.result.items)
  /\ \/ PresentFields(extraction'.result) # PresentFields(extraction.result)
     \/ Len(extraction'.result.items) > Len(extraction.result.items)

C32_PopulatingNeverLowers ==
  [][Populated =>
       /\ extraction'.completeness >= extraction.completeness
       /\ extraction'.score >= extraction.score]_vars

\* Twice the weight that the step from extraction to extraction' adds to
\* the weighted sum, and the number of fields it adds to the count.
AddedWeight2 ==
  PresentWeight2(extraction'.result) - PresentWeight2(extraction.result)

AddedCount ==
  PresentCount(extraction'.result) - PresentCount(extraction.result)

\* C32 as amended: the completeness is the mean weight of the fields
\* present.  Populating a field never lowers the weighted sum, and the
\* completeness and the score do not drop exactly when the mean weight of
\* what was added is at least the completeness the result had; more items
\* for a result that has items, and any field for a result that has none,
\* never lower them.
C32_MeanWeight ==
  [][Populated =>
       /\ AddedWeight2 >= 0
       /\ AddedCount \in {0, 1}
       /\ (extraction'.completeness >= extraction.completeness)
            <=> (60 * AddedWeight2 >= AddedCount * extraction.completeness)
       /\ (extraction'.score >= extraction.score)
            <=> (extraction'.completeness >= extraction.completeness)
       /\ (AddedCount = 0 \/ PresentCount(extraction.result) = 0)
            => extraction'.completeness >= extraction.completeness]_vars

\* A result with a merchant and a currency and nothing else has been scored,
\* with a completeness below the completeness of the merchant alone.
C32_Witness ==
  /\ PresentFields(extraction.result) = {"merchant_name", "currency"}
  /\ extraction.result.items = <<>>
  /\ extraction.completeness < 60 * Weight2("merchant_name")
  /\ extraction.completeness = NormalizedCompleteness(extraction.result)

(***************************************************************************)
(* The way of a document id through the all-agents workflow: main deletes  *)
(* the accumulated results of the id and writes it into the text of the    *)
(* first request, dispatch_to_all_agents parses it out of that text and    *)
(* writes it into the requests to the processors, and every processor      *)
(* parses it out of its request, fetches the blob of that name and puts    *)
(* the name on its result.                                                 *)
(***************************************************************************)

\* The longest blob name drawn, in pieces.
MaxNameLen == 2

\* The pieces blob names are made of: characters, and the two characters
\* ": " as one piece, as Split looks for them.
NamePieces == {"r", "1", " ", ": "}

\* The blob names of the container: a blob name may hold any character.
\* (Names ending in ": " are left out: Strip takes pieces for characters.)
BlobNames ==
  {name \in UNION {[1..n -> NamePieces] : n \in 1..MaxNameLen} :
     name[Len(name)] # ": "}

\* get_blob_base64(blob_name) for a container of non-empty blobs: the
\* download of a blob that is not in the container raises.
GetBlobBase64(container, blob_name) ==
  IF blob_name \in container THEN "ok" ELSE "raises"

\* main has listed the container and comes to the receipt blob_name; the
\* container holds the receipt alone or every blob name.
RoundTripInit ==
  /\ accumulated_results = [b \in Blobs |-> <<>>]
  /\ output = None
  /\ inbox = {}
  /\ suspended = {}
  /\ log = <<>>
  /\ run = NoRun
  /\ workflow = NoWorkflow
  /\ processed = 0
  /\ extraction = None
  /\ load_test = None
  /\ poll = None
  /\ \E blob_name \in BlobNames : \E container \in {{blob_name}, BlobNames} :
       roundtrip =
         [container |-> container, blob_name |-> blob_name,
          phase |-> "listed", cleared |-> None, message |-> <<>>,
          parsed |-> [source \in Processors |-> None],
          sent |-> [source \in Processors |-> None]]

\* main, lines 216-247 of receipt_analysis_all_agents.py: the accumulated
\* results of blob_name are deleted and the request is built.
MainRequest ==
  /\ roundtrip.phase = "listed"
  /\ roundtrip' =
       [roundtrip EXCEPT
          !.cleared = Some(roundtrip.blob_name),
          !.message = ProcessReceiptText(roundtrip.blob_name),
          !.phase = "dispatching"]
  /\ UNCHANGED <<workflow_vars, extraction, load_test, poll>>

\* dispatch_to_all_agents, lines 67-109.
Dispatcher ==
  /\ roundtrip.phase = "dispatching"
  /\ LET blob_name == DispatchedBlobName(roundtrip.message)
     IN roundtrip' =
          IF GetBlobBase64(roundtrip.container, blob_name) = "raises"
          THEN [roundtrip EXCEPT !.phase = "raised"]
          ELSE [roundtrip EXCEPT
                  !.message =
                    RequestText("Process this receipt image", blob_name,
                                "Image data"),
                  !.phase = "processing"]
  /\ UNCHANGED <<workflow_vars, extraction, load_test, poll>>

\* A processor, lines 184-189, 295-300 and 493-497 of
\* receipt_analysis_workflow.py, up to the result it sends: the blob name is
\* parsed, the blob fetched, and the result carries the parsed name.
Processor(source) ==
  /\ roundtrip.phase = "processing"
  /\ roundtrip.parsed[source] = None
  /\ LET blob_name == RequestedBlobName(roundtrip.message)
     IN roundtrip' =
          IF GetBlobBase64(roundtrip.container, blob_name) = "raises"
          THEN [roundtrip EXCEPT
                  !.parsed[source] = Some(blob_name), !.phase = "raised"]
          ELSE [roundtrip EXCEPT
                  !.parsed[source] = Some(blob_name),
                  !.sent[source] = Some(blob_name)]
  /\ UNCHANGED <<workflow_vars, extraction, load_test, poll>>

RoundTripNext ==
  \/ MainRequest
  \/ Dispatcher
  \/ \E source \in Processors : Processor(source)

RoundTripSpec == RoundTripInit /\ [][RoundTripNext]_vars

(***************************************************************************)
(* C31.  Document-id round trip: the blob name every processor parses out  *)
(* of its request, and with it the blob_name of every result sent to the   *)
(* aggregator, is the document id main dispatched, which is the key whose  *)
(* accumulated results main deleted.                                       *)
(***************************************************************************)
C31_RoundTrip ==
  \A source \in Processors :
    /\ roundtrip.parsed[source] # None
         => roundtrip.parsed[source] = Some(roundtrip.blob_name)
    /\ roundtrip.sent[source] # None
         => /\ roundtrip.sent[source] = Some(roundtrip.blob_name)
            /\ roundtrip.sent[source] = roundtrip.cleared

(***************************************************************************)
(* The load test of src/scripts/mistral/mistral_load_test.py.  The         *)
(* synchronous run_load_test and the worker of the async runner are run    *)
(* side by side over the same iterations against the same service: the     *)
(* k-th request of an iteration gets the same response from either.        *)
(***************************************************************************)

\* The largest max_retries and the largest number of iterations drawn.
MaxRetries == 3

MaxIterations == 2

\* What make_request returns as status_code: None for a network error, or
\* the HTTP status of the response.
StatusCodes ==
  {None, Some(200), Some(404), Some(429), Some(503)}

\* attempt = 0, success = False before the while loop; `broke` tells that
\* the loop was left with break, `successes` counts the entries of this
\* iteration appended to records with success True.
NewAttempts ==
  [attempt |-> 0, success |-> FALSE, status_code |-> None, broke |-> FALSE,
   successes |-> 0]

\* Variant of Pass that retries after every response that is not a 2xx.
PassRetryAll(loop, status_code) ==
  LET tried == [loop EXCEPT !.attempt = @ + 1, !.status_code = status_code]
  IN IF status_code # None /\ status_code[1] # 429
        /\ 200 <= status_code[1] /\ status_code[1] < 300
     THEN [tried EXCEPT !.success = TRUE, !.broke = TRUE,
                        !.successes = @ + 1]
     ELSE tried

\* One pass of the body of the while loop, lines 238-292 (and 399-433 for
\* the worker), with the status_code make_request returned.
Pass(loop, status_code) ==
  LET tried == [loop EXCEPT !.attempt = @ + 1, !.status_code = status_code]
  IN CASE status_code = None -> tried
       [] status_code # None /\ status_code[1] = 429 -> tried
       [] status_code # None /\ status_code[1] # 429
            /\ 200 <= status_code[1] /\ status_code[1] < 300 ->
            [tried EXCEPT !.success = TRUE, !.broke = TRUE,
                          !.successes = @ + 1]
       [] OTHER ->
            IF 500 <= status_code[1] /\ status_code[1] < 600
            THEN tried
            ELSE [tried EXCEPT !.broke = TRUE]

\* run_load_test is in an iteration and at the head of its while loop with
\* the condition of line 237 true: attempt <= max_retries and not success.
SyncLooping ==
  /\ load_test.i >= 1
  /\ ~ load_test.sync.broke
  /\ load_test.sync.attempt <= load_test.max_retries
  /\ ~ load_test.sync.success

\* A worker is at the head of its while loop with the condition of line 397
\* true: attempt <= args.iterations and not success.
WorkerLooping ==
  /\ load_test.i >= 1
  /\ ~ load_test.worker.broke
  /\ load_test.worker.attempt <= load_test.iterations
  /\ ~ load_test.worker.success

\* The load test is started with its arguments.
LoadTestInit ==
  /\ accumulated_results = [b \in Blobs |-> <<>>]
  /\ output = None
  /\ inbox = {}
  /\ suspended = {}
  /\ log = <<>>
  /\ run = NoRun
  /\ workflow = NoWorkflow
  /\ processed = 0
  /\ roundtrip = None
  /\ extraction = None
  /\ poll = None
  /\ \E iterations \in 0..MaxIterations, max_retries \in 0..MaxRetries :
       load_test =
         [iterations |-> iterations, max_retries |-> max_retries,
          i |-> 0, responses |-> <<>>,
          sync |-> NewAttempts, worker |-> NewAttempts,
          successful |-> [sync |-> 0, worker |-> 0],
          summary |-> None]

\* for i in range(1, iterations + 1), line 213, and worker(i) of line 436:
\* the next iteration begins once the previous one is over.
BeginIteration ==
  /\ load_test.summary = None
  /\ ~ SyncLooping
  /\ ~ WorkerLooping
  /\ load_test.i < load_test.iterations
  /\ load_test' =
       [load_test EXCEPT
          !.i = @ + 1, !.responses = <<>>,
          !.sync = NewAttempts, !.worker = NewAttempts,
          !.successful =
            [sync |-> @.sync + load_test.sync.successes,
             worker |-> @.worker + load_test.worker.successes]]
  /\ UNCHANGED <<workflow_vars, roundtrip, extraction, poll>>

\* The response to the k-th request of the iteration: the one the service
\* gave before, or a new one.
Responded(k, status_code) ==
  IF k <= Len(load_test.responses) THEN load_test.responses[k] = status_code
  ELSE TRUE

Responses(k, status_code) ==
  IF k <= Len(load_test.responses) THEN load_test.responses
  ELSE Append(load_test.responses, status_code)

\* One pass of the while loop of run_load_test.
SyncAttempt(status_code) ==
  /\ load_test.summary = None
  /\ SyncLooping
  /\ Responded(load_test.sync.attempt + 1, status_code)
  /\ load_test' =
       [load_test EXCEPT
          !.sync = Pass(@, status_code),
          !.responses = Responses(load_test.sync.attempt + 1, status_code)]
  /\ UNCHANGED <<workflow_vars, roundtrip, extraction, poll>>

\* One pass of the while loop of worker.
WorkerAttempt(status_code) ==
  /\ load_test.summary = None
  /\ WorkerLooping
  /\ Responded(load_test.worker.attempt + 1, status_code)
  /\ load_test' =
       [load_test EXCEPT
          !.worker = Pass(@, status_code),
          !.responses = Responses(load_test.worker.attempt + 1, status_code)]
  /\ UNCHANGED <<workflow_vars, roundtrip, extraction, poll>>

\* Lines 294-298 and 446-449: successful_calls and failed_calls.
Summary(iterations, successful) ==
  [total_iterations |-> iterations, successful_calls |-> successful,
   failed_calls |-> iterations - successful]

Summarize ==
  /\ load_test.summary = None
  /\ ~ SyncLooping
  /\ ~ WorkerLooping
  /\ load_test.i = load_test.iterations
  /\ LET successful ==
           [sync |-> load_test.successful.sync + load_test.sync.successes,
            worker |->
              load_test.successful.worker + load_test.worker.successes]
     IN load_test' =
          [load_test EXCEPT
             !.successful = successful,
             !.summary =
               Some([sync |-> Summary(load_test.iterations, successful.sync),
                     worker |->
                       Summary(load_test.iterations, successful.worker)])]
  /\ UNCHANGED <<workflow_vars, roundtrip, extraction, poll>>

LoadTestNext ==
  \/ BeginIteration
  \/ \E status_code \in StatusCodes : SyncAttempt(status_code)
  \/ \E status_code \in StatusCodes : WorkerAttempt(status_code)
  \/ Summarize

\* Every request returns (timeout=30) and every sleep ends, so the load
\* test goes on as long as it has a step to take.
LoadTestSpec ==
  LoadTestInit /\ [][LoadTestNext]_vars /\ WF_vars(LoadTestNext)

(***************************************************************************)
(* Vocabulary of the claims about the load test.                           *)
(***************************************************************************)
\* A response after which the claims allow another attempt: a network
\* error, an HTTP 429 or an HTTP 5xx.
Retryable(status_code) ==
  \/ status_code = None
  \/ status_code # None /\ status_code[1] = 429
  \/ status_code # None /\ status_code[1] \in 500..599

Is2xx(status_code) == status_code # None /\ status_code[1] \in 200..299

\* The step is a further request attempt of run_load_test in the running
\* iteration.
FurtherSyncAttempt ==
  /\ load_test'.i = load_test.i
  /\ load_test.sync.attempt >= 1
  /\ load_test'.sync.attempt = load_test.sync.attempt + 1

\* run_load_test has written its summary.
SyncDone == load_test.summary # None

(***************************************************************************)
(* C34.  In run_load_test every iteration ends after at most               *)
(* max_retries + 1 request attempts: a further attempt is made only after  *)
(* a network error, an HTTP 429 or an HTTP 5xx, no attempt follows a 2xx   *)
(* or any other status, at most one success is recorded per iteration,     *)
(* the run comes to its summary, and there successful_calls <= iterations  *)
(* and failed_calls = iterations - successful_calls >= 0.                  *)
(***************************************************************************)
C34_Attempts ==
  /\ load_test.sync.attempt <= load_test.max_retries + 1
  /\ load_test.sync.successes <= 1
  /\ load_test.sync.successes = 1 => Is2xx(load_test.sync.status_code)
  /\ (load_test.sync.attempt >= 1 /\ ~ Retryable(load_test.sync.status_code))
       => ~ ENABLED (\E status_code \in StatusCodes : SyncAttempt(status_code))
  /\ load_test.successful.sync <= load_test.i

C34_Summary ==
  SyncDone =>
    LET summary == load_test.summary[1].sync
    IN /\ summary.successful_calls = load_test.successful.sync
       /\ summary.successful_calls <= load_test.iterations
       /\ summary.failed_calls
            = load_test.iterations - summary.successful_calls
       /\ summary.failed_calls >= 0

C35_SameRetryPolicy ==
  /\ load_test.worker.attempt <= load_test.max_retries + 1
  /\ (load_test.i >= 1 /\ ~ SyncLooping /\ ~ WorkerLooping)
       => /\ load_test.worker.attempt = load_test.sync.attempt
          /\ load_test.worker.status_code = load_test.sync.status_code
          /\ load_test.worker.success = load_test.sync.success

(***************************************************************************)
(* AzureContentUnderstandingClient of                                      *)
(* src/scripts/content-understanding/content_understanding.py:             *)
(* analyze_image submits the image and polls for the result.               *)
(***************************************************************************)

\* The largest max_attempts drawn.
MaxAttempts == 4

\* The JSON of a poll response: its "status", if it has one.
ServiceResult(status) == [status |-> status, error |-> None]

ServiceResults ==
  {ServiceResult(status) :
     status \in {None, Some("Succeeded"), Some("Failed"), Some("Running"),
                 Some("NotStarted"), Some("Canceled")}}

\* Line 123.
TimeoutResult ==
  [status |-> None, error |-> Some("Timeout waiting for results")]

\* result.get("status", "Unknown")
Status(result) ==
  IF result.status = None THEN "Unknown" ELSE result.status[1]

\* Variant of Returns that knows Running alone as a status to wait on.
ReturnsUnlessRunning(result) == Status(result) # "Running"

\* Lines 104-116: the poll loop returns the result unless its status is
\* Running or NotStarted.
Returns(result) ==
  CASE Status(result) = "Succeeded" -> TRUE
    [] Status(result) = "Failed" -> TRUE
    [] Status(result) \in {"Running", "NotStarted"} -> FALSE
    [] OTHER -> TRUE

\* analyze_image is called with max_attempts.
PollInit ==
  /\ accumulated_results = [b \in Blobs |-> <<>>]
  /\ output = None
  /\ inbox = {}
  /\ suspended = {}
  /\ log = <<>>
  /\ run = NoRun
  /\ workflow = NoWorkflow
  /\ processed = 0
  /\ roundtrip = None
  /\ extraction = None
  /\ load_test = None
  /\ \E max_attempts \in 0..MaxAttempts :
       poll = [max_attempts |-> max_attempts, phase |-> "submitting",
               attempts |-> 0, polled |-> <<>>, returned |-> None]

\* analyze_image, lines 47-70: the request is submitted; a response with an
\* id starts the polling, a response without one raises ValueError, and a
\* RequestException ends the process with sys.exit(1).
AnalyzeImage(submitted) ==
  /\ poll.phase = "submitting"
  /\ poll' =
       [poll EXCEPT
          !.phase =
            CASE submitted = "id" -> "polling"
              [] submitted = "no id" -> "raised"
              [] OTHER -> "exited"]
  /\ UNCHANGED <<workflow_vars, roundtrip, extraction, load_test>>

\* One pass of the while loop of _poll_for_results, lines 92-116, whose GET
\* is answered with `result`.
Poll(result) ==
  /\ poll.phase = "polling"
  /\ poll.attempts < poll.max_attempts
  /\ poll' =
       [poll EXCEPT
          !.attempts = @ + 1,
          !.polled = Append(@, result),
          !.phase = IF Returns(result) THEN "returned" ELSE "polling",
          !.returned = IF Returns(result) THEN Some(result) ELSE None]
  /\ UNCHANGED <<workflow_vars, roundtrip, extraction, load_test>>

\* One pass of the while loop whose GET raises a RequestException, lines
\* 118-120: sys.exit(1).
PollFails ==
  /\ poll.phase = "polling"
  /\ poll.attempts < poll.max_attempts
  /\ poll' = [poll EXCEPT !.attempts = @ + 1, !.phase = "exited"]
  /\ UNCHANGED <<workflow_vars, roundtrip, extraction, load_test>>

\* Lines 122-123: the loop is left with attempts >= max_attempts.
PollTimeout ==
  /\ poll.phase = "polling"
  /\ ~ (poll.attempts < poll.max_attempts)
  /\ poll' =
       [poll EXCEPT !.phase = "returned", !.returned = Some(TimeoutResult)]
  /\ UNCHANGED <<workflow_vars, roundtrip, extraction, load_test>>

PollNext ==
  \/ \E submitted \in {"id", "no id", "RequestException"} :
       AnalyzeImage(submitted)
  \/ \E result \in ServiceResults : Poll(result)
  \/ PollFails
  \/ PollTimeout

\* Every request is answered or fails and every sleep ends, so the client
\* goes on as long as it has a step to take.
PollSpec == PollInit /\ [][PollNext]_vars /\ WF_vars(PollNext)

(***************************************************************************)
(* C36.  _poll_for_results always ends, after at most max_attempts polls:  *)
(* it polls on only while every status polled is Running or NotStarted,    *)
(* it returns the result of the first poll whose status is neither         *)
(* (Succeeded, Failed, or an unknown or missing status), and it returns    *)
(* {"error": "Timeout waiting for results"} when max_attempts polls have   *)
(* all reported Running or NotStarted.                                     *)
(***************************************************************************)
Pending(result) ==
  result.status \in {Some("Running"), Some("NotStarted")}

AllPending(results) == \A k \in 1..Len(results) : Pending(results[k])

C36_Polls ==
  /\ poll.attempts <= poll.max_attempts
  /\ Len(poll.polled) <= poll.attempts
  /\ poll.phase = "polling" => AllPending(poll.polled)
  /\ poll.phase = "returned" =>
       IF AllPending(poll.polled)
       THEN /\ Len(poll.polled) = poll.max_attempts
            /\ poll.returned
                 = Some([status |-> None,
                         error |-> Some("Timeout waiting for results")])
       ELSE /\ AllPending(SubSeq(poll.polled, 1, Len(poll.polled) - 1))
            /\ poll.returned = Some(poll.polled[Len(poll.polled)])

====
